---- MODULE Spec2Model ----
(***************************************************************************)
(* GDPRParser (src/gdpr_parser.py): the in-memory model built by the       *)
(* extraction stages, the SQLite knowledge store, populate_database,       *)
(* parse_and_load and the read queries.                                    *)
(*                                                                         *)
(* Strings that the store orders (paragraph numbers, letters, roman        *)
(* numerals, article numbers) are sequences of character codes, so that    *)
(* SQLite's BINARY collation is computed and not assumed.  Row ids are     *)
(* INTEGER PRIMARY KEY values: the n-th row inserted in a table gets id n  *)
(* (nothing is ever deleted), and 0 stands for NULL / None.                *)
(***************************************************************************)
EXTENDS Integers, Sequences, FiniteSets, TLC

VARIABLES
    self,      \* the GDPRParser instance fields (caches and connection)
    args,      \* what the caller holds: the text, and from extraction the
               \* recitals, articles, actors
    db,        \* the committed content of the database file
    tx,        \* the content seen through self.conn (committed + uncommitted)
    pc,        \* position inside populate_database, or "idle"
    loc,       \* populate_database locals: id maps and loop index
    run,       \* the driver: a parse_and_load run or a direct caller of the stages
    ret,       \* the last read query issued and what it returned
    rd,        \* concurrent readers (ReadersSpec)
    files      \* the paths at which a file exists

vars == <<self, args, db, tx, pc, loc, run, ret, rd, files>>

(***************************************************************************)
(* Bounds                                                                  *)
(***************************************************************************)
MaxNodes == 5        \* articles + paragraphs + subparagraphs + subsubparagraphs extracted
MaxPopulate == 2     \* populate_database calls on one parser

NULL == 0            \* SQL NULL / Python None for ids

(***************************************************************************)
(* Text helpers                                                            *)
(***************************************************************************)
\* SQLite BINARY collation on TEXT: memcmp, then the shorter string first.
RECURSIVE LexLess(_, _)
LexLess(a, b) ==
    IF b = <<>> THEN FALSE
    ELSE IF a = <<>> THEN TRUE
    ELSE IF Head(a) < Head(b) THEN TRUE
    ELSE IF Head(a) > Head(b) THEN FALSE
    ELSE LexLess(Tail(a), Tail(b))

\* a faulty variant of OrderLess: the numeric value of a digit string decides
RECURSIVE NumVal(_)
NumVal(s) == IF s = <<>> THEN 0 ELSE 10 * NumVal(SubSeq(s, 1, Len(s) - 1)) + s[Len(s)]

NumericLess(a, b) == NumVal(a) < NumVal(b)

\* ORDER BY <text column>: the comparison the sorter uses
OrderLess(a, b) == LexLess(a, b)

\* insert row r into the sorted sequence s after every row whose key is not greater
RECURSIVE Place(_, _, _)
Place(s, r, col) ==
    IF s = <<>> THEN <<r>>
    ELSE IF OrderLess(r[col], Head(s)[col]) THEN <<r>> \o s
    ELSE <<Head(s)>> \o Place(Tail(s), r, col)

\* the rows of s in ORDER BY col order; rows with equal keys stay in rowid
\* (scan) order, as SQLite's sorter leaves them
RECURSIVE OrderBy(_, _)
OrderBy(s, col) ==
    IF s = <<>> THEN <<>>
    ELSE Place(OrderBy(SubSeq(s, 1, Len(s) - 1), col), s[Len(s)], col)

\* dict.get(k): the value under k, None (NULL) when absent
Get(m, k) == IF k \in DOMAIN m THEN m[k] ELSE NULL

\* dict[k] = v
Put(m, k, v) == [x \in DOMAIN m \cup {k} |-> IF x = k THEN v ELSE m[x]]

EmptyMap == [x \in {} |-> NULL]

(***************************************************************************)
(* The store: one sequence of rows per table of init_database's schema     *)
(***************************************************************************)
TableNames ==
    {"chapters", "sections", "recitals", "articles", "paragraphs", "subparagraphs",
     "subsubparagraphs", "requirements", "entities", "definitions", "cross_references",
     "time_requirements", "key_actors", "privacy_policy_sections"}

\* a database file on which no CREATE TABLE has run
NoFile == [t \in TableNames |-> <<>>] @@ [schema |-> FALSE]

\* CREATE TABLE IF NOT EXISTS ...: the tables exist afterwards, rows are kept
CreateTables(st) == [st EXCEPT !.schema = TRUE]

\* a faulty variant of LastRowId: the id of the row before the one just inserted
StaleRowId(st, table) == IF Len(st[table]) > 1 THEN Len(st[table]) - 1 ELSE 1

\* cursor.lastrowid after the INSERT that Insert performs
LastRowId(st, table) == Len(st[table])

\* a faulty variant of Insert: INSERT OR IGNORE under a uniqueness constraint over
\* all the columns of the row
InsertOrIgnore(st, table, row) ==
    IF \E i \in 1..Len(st[table]) : \A f \in DOMAIN row : st[table][i][f] = row[f]
    THEN st
    ELSE [st EXCEPT ![table] = Append(@, row @@ [id |-> Len(@) + 1])]

\* INSERT INTO table (...) VALUES (...), with the INTEGER PRIMARY KEY assigned
Insert(st, table, row) ==
    [st EXCEPT ![table] = Append(@, row @@ [id |-> Len(@) + 1])]

\* the 11 rows of the privacy_policy_sections literal
NumPolicySections == 11

(***************************************************************************)
(* populate_database, one operator per loop of the method                  *)
(***************************************************************************)
\* for chapter in self.chapters: INSERT, chapter_id_map[number] = lastrowid
RECURSIVE InsertChapters(_, _, _)
InsertChapters(st, chapter_id_map, chapters) ==
    IF chapters = <<>> THEN [st |-> st, chapter_id_map |-> chapter_id_map]
    ELSE LET chapter == Head(chapters)
             st1 == Insert(st, "chapters",
                           [number |-> chapter.number, title |-> chapter.title])
         IN InsertChapters(st1,
                           Put(chapter_id_map, chapter.number, LastRowId(st1, "chapters")),
                           Tail(chapters))

\* the chapter a section is filed under: that of the first article tagged with
\* the section's number that also carries a chapter tag
RECURSIVE SectionChapterId(_, _, _)
SectionChapterId(section, articles, chapter_id_map) ==
    IF articles = <<>> THEN NULL
    ELSE LET article == Head(articles) IN
         IF /\ article.section # <<>>
            /\ article.section[1].number = section.number
            /\ article.chapter # <<>>
         THEN Get(chapter_id_map, article.chapter[1].number)
         ELSE SectionChapterId(section, Tail(articles), chapter_id_map)

\* for section in self.sections: INSERT, section_id_map[number] = lastrowid
RECURSIVE InsertSections(_, _, _, _, _)
InsertSections(st, section_id_map, sections, articles, chapter_id_map) ==
    IF sections = <<>> THEN [st |-> st, section_id_map |-> section_id_map]
    ELSE LET section == Head(sections)
             st1 == Insert(st, "sections",
                           [chapter_id |-> SectionChapterId(section, articles, chapter_id_map),
                            number |-> section.number, title |-> section.title])
         IN InsertSections(st1,
                           Put(section_id_map, section.number, LastRowId(st1, "sections")),
                           Tail(sections), articles, chapter_id_map)

\* for recital in recitals: INSERT
RECURSIVE InsertRecitals(_, _)
InsertRecitals(st, recitals) ==
    IF recitals = <<>> THEN st
    ELSE InsertRecitals(Insert(st, "recitals",
                               [number |-> Head(recitals).number,
                                content |-> Head(recitals).content]),
                        Tail(recitals))

\* for subsubparagraph in subparagraph['subsubparagraphs']: INSERT
RECURSIVE InsertSubsubparagraphs(_, _, _)
InsertSubsubparagraphs(st, subparagraph_id, subsubparagraphs) ==
    IF subsubparagraphs = <<>> THEN st
    ELSE InsertSubsubparagraphs(
             Insert(st, "subsubparagraphs",
                    [subparagraph_id |-> subparagraph_id,
                     number |-> Head(subsubparagraphs).number,
                     text |-> Head(subsubparagraphs).text]),
             subparagraph_id, Tail(subsubparagraphs))

\* for subparagraph in paragraph['subparagraphs']: INSERT, map, subsubparagraphs
RECURSIVE InsertSubparagraphs(_, _, _, _, _, _)
InsertSubparagraphs(st, subparagraph_id_map, article, paragraph, paragraph_id, subparagraphs) ==
    IF subparagraphs = <<>> THEN [st |-> st, subparagraph_id_map |-> subparagraph_id_map]
    ELSE LET subparagraph == Head(subparagraphs)
             st1 == Insert(st, "subparagraphs",
                           [paragraph_id |-> paragraph_id,
                            letter |-> subparagraph.letter, text |-> subparagraph.text])
             subparagraph_id == LastRowId(st1, "subparagraphs")
             st2 == InsertSubsubparagraphs(st1, subparagraph_id, subparagraph.subsubparagraphs)
         IN InsertSubparagraphs(
                st2,
                Put(subparagraph_id_map,
                    <<article.number, paragraph.number, subparagraph.letter>>, subparagraph_id),
                article, paragraph, paragraph_id, Tail(subparagraphs))

\* for paragraph in article['paragraphs']: INSERT, map, subparagraphs
RECURSIVE InsertParagraphs(_, _, _, _, _)
InsertParagraphs(st, maps, article, article_id, paragraphs) ==
    IF paragraphs = <<>> THEN [st |-> st, maps |-> maps]
    ELSE LET paragraph == Head(paragraphs)
             st1 == Insert(st, "paragraphs",
                           [article_id |-> article_id, number |-> paragraph.number,
                            text |-> paragraph.text])
             paragraph_id == LastRowId(st1, "paragraphs")
             sub == InsertSubparagraphs(st1, maps.subparagraph_id_map, article, paragraph,
                                        paragraph_id, paragraph.subparagraphs)
         IN InsertParagraphs(
                sub.st,
                [maps EXCEPT
                    !.paragraph_id_map =
                        Put(@, <<article.number, paragraph.number>>, paragraph_id),
                    !.subparagraph_id_map = sub.subparagraph_id_map],
                article, article_id, Tail(paragraphs))

\* for requirement in article['requirements']: resolve the ids through the maps, INSERT
RECURSIVE InsertRequirements(_, _, _, _, _)
InsertRequirements(st, maps, article, article_id, requirements) ==
    IF requirements = <<>> THEN st
    ELSE LET requirement == Head(requirements)
             paragraph_id ==
                 Get(maps.paragraph_id_map, <<article.number, requirement.paragraph>>)
             subparagraph_id ==
                 IF requirement.subparagraph # <<>>
                 THEN Get(maps.subparagraph_id_map,
                          <<article.number, requirement.paragraph, requirement.subparagraph>>)
                 ELSE NULL
         IN InsertRequirements(
                Insert(st, "requirements",
                       [article_id |-> article_id, paragraph_id |-> paragraph_id,
                        subparagraph_id |-> subparagraph_id, text |-> requirement.text,
                        is_obligation |-> requirement.is_obligation,
                        is_right |-> requirement.is_right,
                        is_time_requirement |-> requirement.is_time_requirement]),
                maps, article, article_id, Tail(requirements))

\* for entity in article['entities']: INSERT
RECURSIVE InsertEntities(_, _, _)
InsertEntities(st, article_id, entities) ==
    IF entities = <<>> THEN st
    ELSE InsertEntities(Insert(st, "entities",
                               [article_id |-> article_id, text |-> Head(entities).text,
                                label |-> Head(entities).label]),
                        article_id, Tail(entities))

\* one iteration of "for article in articles": the article row, then its
\* paragraphs, requirements and entities
InsertArticle(st, maps, article) ==
    LET chapter_id == IF article.chapter # <<>>
                      THEN Get(maps.chapter_id_map, article.chapter[1].number) ELSE NULL
        section_id == IF article.section # <<>>
                      THEN Get(maps.section_id_map, article.section[1].number) ELSE NULL
        st1 == Insert(st, "articles",
                      [number |-> article.number, title |-> article.title,
                       content |-> article.content, chapter_id |-> chapter_id,
                       section_id |-> section_id])
        article_id == LastRowId(st1, "articles")
        maps1 == [maps EXCEPT !.article_id_map = Put(@, article.number, article_id)]
        par == InsertParagraphs(st1, maps1, article, article_id, article.paragraphs)
        st2 == InsertRequirements(par.st, par.maps, article, article_id, article.requirements)
    IN [st |-> InsertEntities(st2, article_id, article.entities), maps |-> par.maps]

\* for term, definition in self.definitions.items(): resolve ids, INSERT
RECURSIVE InsertDefinitions(_, _, _)
InsertDefinitions(st, maps, definitions) ==
    IF definitions = <<>> THEN st
    ELSE LET definition == Head(definitions)
             article_id == Get(maps.article_id_map, definition.article)
             paragraph_id ==
                 Get(maps.paragraph_id_map, <<definition.article, definition.paragraph>>)
             subparagraph_id ==
                 IF definition.subparagraph # <<>>
                 THEN Get(maps.subparagraph_id_map,
                          <<definition.article, definition.paragraph, definition.subparagraph>>)
                 ELSE NULL
         IN InsertDefinitions(
                Insert(st, "definitions",
                       [term |-> definition.term, definition |-> definition.definition,
                        article_id |-> article_id, paragraph_id |-> paragraph_id,
                        subparagraph_id |-> subparagraph_id]),
                maps, Tail(definitions))

\* for reference in references: INSERT when the target article is in the map
RECURSIVE InsertReferences(_, _, _, _)
InsertReferences(st, maps, from_article_id, references) ==
    IF references = <<>> THEN st
    ELSE LET reference == Head(references)
             to_article_id == Get(maps.article_id_map, reference.article)
             st1 == IF to_article_id # NULL
                    THEN Insert(st, "cross_references",
                                [from_article_id |-> from_article_id,
                                 to_article_id |-> to_article_id,
                                 to_paragraph |-> reference.paragraph])
                    ELSE st
         IN InsertReferences(st1, maps, from_article_id, Tail(references))

\* for from_article, references in self.cross_references.items()
RECURSIVE InsertCrossReferences(_, _, _)
InsertCrossReferences(st, maps, cross_references) ==
    IF cross_references = <<>> THEN st
    ELSE LET from_article_id == Get(maps.article_id_map, Head(cross_references).from_article)
             st1 == IF from_article_id # NULL
                    THEN InsertReferences(st, maps, from_article_id,
                                          Head(cross_references).references)
                    ELSE st
         IN InsertCrossReferences(st1, maps, Tail(cross_references))

\* for time_req in self.time_requirements: resolve ids, INSERT.  article_id is
\* NOT NULL in the schema: a time requirement of an article that is not in the
\* map raises IntegrityError after the rows before it were inserted.
RECURSIVE InsertTimeRequirements(_, _, _)
InsertTimeRequirements(st, maps, time_requirements) ==
    IF time_requirements = <<>> THEN [st |-> st, raised |-> FALSE]
    ELSE LET time_req == Head(time_requirements)
             article_id == Get(maps.article_id_map, time_req.article)
             paragraph_id ==
                 Get(maps.paragraph_id_map, <<time_req.article, time_req.paragraph>>)
             subparagraph_id ==
                 IF time_req.subparagraph # <<>>
                 THEN Get(maps.subparagraph_id_map,
                          <<time_req.article, time_req.paragraph, time_req.subparagraph>>)
                 ELSE NULL
         IN IF article_id = NULL THEN [st |-> st, raised |-> TRUE]
            ELSE InsertTimeRequirements(
                     Insert(st, "time_requirements",
                            [article_id |-> article_id, paragraph_id |-> paragraph_id,
                             subparagraph_id |-> subparagraph_id, text |-> time_req.text]),
                     maps, Tail(time_requirements))

\* for actor_type, mentions in actors.items(): for mention in mentions: INSERT
\* when the mention's article is in the map
RECURSIVE InsertKeyActors(_, _, _)
InsertKeyActors(st, maps, mentions) ==
    IF mentions = <<>> THEN st
    ELSE LET mention == Head(mentions)
             article_id == Get(maps.article_id_map, mention.article)
             st1 == IF article_id # NULL
                    THEN Insert(st, "key_actors",
                                [actor_type |-> mention.actor_type, article_id |-> article_id,
                                 text |-> mention.text])
                    ELSE st
         IN InsertKeyActors(st1, maps, Tail(mentions))

\* for section in privacy_policy_sections: INSERT
RECURSIVE InsertPolicySections(_, _)
InsertPolicySections(st, k) ==
    IF k > NumPolicySections THEN st
    ELSE InsertPolicySections(Insert(st, "privacy_policy_sections", [section_name |-> k]),
                              k + 1)

\* the id maps populate_database starts with
NoMaps ==
    [chapter_id_map |-> EmptyMap, section_id_map |-> EmptyMap, article_id_map |-> EmptyMap,
     paragraph_id_map |-> EmptyMap, subparagraph_id_map |-> EmptyMap]

(***************************************************************************)
(* The read queries, as functions of the store the connection sees         *)
(***************************************************************************)
\* SELECT ... WHERE <col> = v, in rowid order
Where(rows, col, v) == SelectSeq(rows, LAMBDA r : r[col] = v)

\* the sub-subparagraphs of one subparagraph row, ORDER BY number
SubsubparagraphsOf(st, subpara_id) ==
    LET rows == OrderBy(Where(st.subsubparagraphs, "subparagraph_id", subpara_id), "number")
    IN [i \in 1..Len(rows) |->
            [id |-> rows[i].id, number |-> rows[i].number, text |-> rows[i].text]]

\* the subparagraphs of one paragraph row, ORDER BY letter
SubparagraphsOf(st, para_id) ==
    LET rows == OrderBy(Where(st.subparagraphs, "paragraph_id", para_id), "letter")
    IN [i \in 1..Len(rows) |->
            [id |-> rows[i].id, letter |-> rows[i].letter, text |-> rows[i].text,
             subsubparagraphs |-> SubsubparagraphsOf(st, rows[i].id)]]

\* the paragraphs of one article row, ORDER BY number
ParagraphsOf(st, article_id) ==
    LET rows == OrderBy(Where(st.paragraphs, "article_id", article_id), "number")
    IN [i \in 1..Len(rows) |->
            [id |-> rows[i].id, number |-> rows[i].number, text |-> rows[i].text,
             subparagraphs |-> SubparagraphsOf(st, rows[i].id)]]

\* SELECT ... FROM requirements WHERE article_id = ?
RequirementsOf(st, article_id) ==
    LET rows == Where(st.requirements, "article_id", article_id)
    IN [i \in 1..Len(rows) |->
            [id |-> rows[i].id, text |-> rows[i].text,
             is_obligation |-> rows[i].is_obligation, is_right |-> rows[i].is_right,
             is_time_requirement |-> rows[i].is_time_requirement]]

\* SELECT ... FROM entities WHERE article_id = ?
EntitiesOf(st, article_id) ==
    LET rows == Where(st.entities, "article_id", article_id)
    IN [i \in 1..Len(rows) |->
            [id |-> rows[i].id, text |-> rows[i].text, label |-> rows[i].label]]

\* SELECT a.number, cr.to_paragraph FROM cross_references cr JOIN articles a ...
CrossReferencesOf(st, article_id) ==
    LET rows == Where(st.cross_references, "from_article_id", article_id)
    IN [i \in 1..Len(rows) |->
            [article |-> st.articles[rows[i].to_article_id].number,
             paragraph |-> rows[i].to_paragraph]]

\* LEFT JOIN chapters c ON a.chapter_id = c.id, then "... if chapter_num else None"
ChapterOf(st, a) ==
    IF a.chapter_id # NULL /\ a.chapter_id \in DOMAIN st.chapters
    THEN <<[number |-> st.chapters[a.chapter_id].number,
            title |-> st.chapters[a.chapter_id].title]>>
    ELSE <<>>

\* LEFT JOIN sections s ON a.section_id = s.id, then "... if section_num else None"
SectionOf(st, a) ==
    IF a.section_id # NULL /\ a.section_id \in DOMAIN st.sections
    THEN <<[number |-> st.sections[a.section_id].number,
            title |-> st.sections[a.section_id].title]>>
    ELSE <<>>

\* a faulty variant of FetchArticle: the query without its WHERE clause
FetchAnyArticle(st, article_number) ==
    IF st.articles = <<>> THEN <<>> ELSE <<st.articles[1]>>

\* fetchone() of the article query: the first matching row, <<>> when there is none
FetchArticle(st, article_number) ==
    LET rows == Where(st.articles, "number", article_number)
    IN IF rows = <<>> THEN <<>> ELSE <<rows[1]>>

\* get_article_by_number: <<>> is None, <<article>> the dict returned
get_article_by_number(st, article_number) ==
    LET article_row == FetchArticle(st, article_number) IN
    IF article_row = <<>> THEN <<>>
    ELSE LET a == article_row[1] IN
         <<[id |-> a.id, number |-> a.number, title |-> a.title, content |-> a.content,
            chapter |-> ChapterOf(st, a), section |-> SectionOf(st, a),
            paragraphs |-> ParagraphsOf(st, a.id),
            requirements |-> RequirementsOf(st, a.id),
            entities |-> EntitiesOf(st, a.id),
            cross_references |-> CrossReferencesOf(st, a.id)]>>

\* export_to_json's own query for the sub-subparagraphs of a subparagraph row
ExportSubsubparagraphsOf(st, subpara_id) ==
    LET rows == OrderBy(Where(st.subsubparagraphs, "subparagraph_id", subpara_id), "number")
    IN [i \in 1..Len(rows) |-> [number |-> rows[i].number, text |-> rows[i].text]]

\* export_to_json's own query for the subparagraphs of a paragraph row
ExportSubparagraphsOf(st, para_id) ==
    LET rows == OrderBy(Where(st.subparagraphs, "paragraph_id", para_id), "letter")
    IN [i \in 1..Len(rows) |->
            [letter |-> rows[i].letter, text |-> rows[i].text,
             subsubparagraphs |-> ExportSubsubparagraphsOf(st, rows[i].id)]]

\* a faulty variant of ExportParagraphsOf: the ORDER BY clause is missing
ExportParagraphsUnordered(st, article_id) ==
    LET rows == Where(st.paragraphs, "article_id", article_id)
    IN [i \in 1..Len(rows) |->
            [number |-> rows[i].number, text |-> rows[i].text,
             subparagraphs |-> ExportSubparagraphsOf(st, rows[i].id)]]

\* export_to_json's own query for the paragraphs of an article row
ExportParagraphsOf(st, article_id) ==
    LET rows == OrderBy(Where(st.paragraphs, "article_id", article_id), "number")
    IN [i \in 1..Len(rows) |->
            [number |-> rows[i].number, text |-> rows[i].text,
             subparagraphs |-> ExportSubparagraphsOf(st, rows[i].id)]]

\* the "articles" list of export_to_json: every article row ORDER BY a.number,
\* each with its nested paragraphs and its requirements
ExportArticles(st) ==
    LET rows == OrderBy(st.articles, "number")
        Req(seq) == [i \in 1..Len(seq) |-> [f \in DOMAIN seq[i] \ {"id"} |-> seq[i][f]]]
    IN [i \in 1..Len(rows) |->
            [number |-> rows[i].number, title |-> rows[i].title,
             content |-> rows[i].content,
             chapter |-> ChapterOf(st, rows[i]), section |-> SectionOf(st, rows[i]),
             paragraphs |-> ExportParagraphsOf(st, rows[i].id),
             requirements |-> Req(RequirementsOf(st, rows[i].id))]]

\* export_data of export_to_json
export_to_json(st) ==
    [chapters |-> [i \in 1..Len(st.chapters) |->
                      [number |-> st.chapters[i].number, title |-> st.chapters[i].title]],
     recitals |-> LET rows == OrderBy(st.recitals, "number")
                  IN [i \in 1..Len(rows) |->
                         [number |-> rows[i].number, content |-> rows[i].content]],
     articles |-> ExportArticles(st),
     definitions |->
         LET rows == OrderBy(SelectSeq(st.definitions, LAMBDA d : d.article_id # NULL), "term")
         IN [i \in 1..Len(rows) |->
                [term |-> rows[i].term, definition |-> rows[i].definition,
                 article |-> st.articles[rows[i].article_id].number]],
     key_actors |->
         [t \in {st.key_actors[i].actor_type : i \in 1..Len(st.key_actors)} |->
             LET joined == [i \in 1..Len(st.key_actors) |->
                               [number |-> st.articles[st.key_actors[i].article_id].number,
                                actor_type |-> st.key_actors[i].actor_type,
                                text |-> st.key_actors[i].text]]
                 rows == OrderBy(Where(joined, "actor_type", t), "number")
             IN [i \in 1..Len(rows) |-> [article |-> rows[i].number, text |-> rows[i].text]]],
     time_requirements |->
         LET joined == [i \in 1..Len(st.time_requirements) |->
                           [number |-> st.articles[st.time_requirements[i].article_id].number,
                            text |-> st.time_requirements[i].text]]
             rows == OrderBy(joined, "number")
         IN [i \in 1..Len(rows) |-> [article |-> rows[i].number, text |-> rows[i].text]]]

(***************************************************************************)
(* get_requirements_for_role.  A role name and a sentence are sequences of  *)
(* text chunks (a word, a blank " ", an underscore "_").                   *)
(***************************************************************************)
\* str.lower() of one chunk
LowerChunk(c) ==
    CASE c = "Controller" -> "controller"
      [] c = "Processor" -> "processor"
      [] c = "Data" -> "data"
      [] c = "Subject" -> "subject"
      [] c = "The" -> "the"
      [] OTHER -> c

\* str.lower()
Lower(text) == [i \in 1..Len(text) |-> LowerChunk(text[i])]

\* role.replace('_', ' ')
ReplaceUnderscores(role) == [i \in 1..Len(role) |-> IF role[i] = "_" THEN " " ELSE role[i]]

\* needle in hay
Contains(hay, needle) ==
    \E i \in 0..(Len(hay) - Len(needle)) : SubSeq(hay, i + 1, i + Len(needle)) = needle

\* a faulty variant of RoleHaystack: the requirement text as it is stored
StoredText(req_text) == req_text

\* the text that the role name is looked for in
RoleHaystack(req_text) == Lower(req_text)

\* set(row[0] for row in "SELECT article_id, text FROM key_actors WHERE actor_type = ?")
RoleArticleIds(st, role) ==
    {st.key_actors[i].article_id :
        i \in {j \in 1..Len(st.key_actors) : st.key_actors[j].actor_type = role}}

\* the ids of a set of ints, in the order CPython iterates a set of small ints
RECURSIVE SetOrder(_)
SetOrder(ids) ==
    IF ids = {} THEN <<>>
    ELSE LET m == CHOOSE x \in ids : \A y \in ids : x <= y
         IN <<m>> \o SetOrder(ids \ {m})

\* the requirement dicts appended for one article id
RoleRequirementsOf(st, role, article_id) ==
    LET rows == SelectSeq(Where(st.requirements, "article_id", article_id),
                          LAMBDA r : Contains(RoleHaystack(r.text), ReplaceUnderscores(role)))
    IN [i \in 1..Len(rows) |->
            [article |-> st.articles[article_id].number,
             article_title |-> st.articles[article_id].title,
             text |-> rows[i].text,
             is_obligation |-> rows[i].is_obligation, is_right |-> rows[i].is_right,
             is_time_requirement |-> rows[i].is_time_requirement]]

RECURSIVE RoleRequirements(_, _, _)
RoleRequirements(st, role, article_ids) ==
    IF article_ids = <<>> THEN <<>>
    ELSE RoleRequirementsOf(st, role, Head(article_ids))
         \o RoleRequirements(st, role, Tail(article_ids))

\* get_requirements_for_role: the list returned
get_requirements_for_role(st, role) ==
    RoleRequirements(st, role, SetOrder(RoleArticleIds(st, role)))

(***************************************************************************)
(* search_by_keyword, over texts of character codes (ASCII for letters,    *)
(* "%" and "_")                                                            *)
(***************************************************************************)
SnippetRadius == 50

\* the wildcards of the LIKE operator
Percent == 37
Underscore == 95

\* str.lower() of one character; LIKE folds the case of ASCII letters the same way
LowerCode(c) == IF c >= 65 /\ c <= 90 THEN c + 32 ELSE c

\* str.lower()
LowerCodes(text) == [i \in 1..Len(text) |-> LowerCode(text[i])]

\* text LIKE pattern: "%" stands for any run of characters, "_" for any one
\* character, letters match without regard to case
RECURSIVE LikeMatch(_, _)
LikeMatch(text, pattern) ==
    IF pattern = <<>> THEN text = <<>>
    ELSE IF Head(pattern) = Percent
    THEN \E k \in 0..Len(text) : LikeMatch(SubSeq(text, k + 1, Len(text)), Tail(pattern))
    ELSE /\ text # <<>>
         /\ \/ Head(pattern) = Underscore
            \/ LowerCode(Head(pattern)) = LowerCode(Head(text))
         /\ LikeMatch(Tail(text), Tail(pattern))

\* Like with the wildcards of the keyword escaped: the keyword has to occur in
\* the text, letter case aside
LikeEscaped(text, keyword) == Contains(LowerCodes(text), LowerCodes(keyword))

\* content LIKE '%keyword%'
Like(text, keyword) == LikeMatch(text, <<Percent>> \o keyword \o <<Percent>>)

\* str.find: the 0-based position of the first occurrence, -1 when there is none
Find(text, keyword) ==
    IF Contains(text, keyword)
    THEN CHOOSE i \in 0..(Len(text) - Len(keyword)) :
            /\ SubSeq(text, i + 1, i + Len(keyword)) = keyword
            /\ \A j \in 0..(i - 1) : SubSeq(text, j + 1, j + Len(keyword)) # keyword
    ELSE -1

\* the snippet around the keyword: "..." before when it starts inside the
\* text, para_text[start_pos:end_pos], "..." after when it ends inside
Snippet(para_text, keyword) ==
    LET keyword_position == Find(LowerCodes(para_text), LowerCodes(keyword))
        start_pos == IF keyword_position - SnippetRadius > 0
                     THEN keyword_position - SnippetRadius ELSE 0
        reach == keyword_position + Len(keyword) + SnippetRadius
        end_pos == IF reach < Len(para_text) THEN reach ELSE Len(para_text)
    IN [leading |-> start_pos > 0,
        text |-> SubSeq(para_text, start_pos + 1, end_pos),
        trailing |-> end_pos < Len(para_text)]

\* the matching paragraphs of one article row, ORDER BY number
MatchingParagraphs(st, article_id, keyword) ==
    LET rows == OrderBy(SelectSeq(st.paragraphs,
                                  LAMBDA p : p.article_id = article_id /\ Like(p.text, keyword)),
                        "number")
    IN [i \in 1..Len(rows) |->
            [paragraph |-> rows[i].number, snippet |-> Snippet(rows[i].text, keyword)]]

\* search_by_keyword: the list returned
search_by_keyword(st, keyword) ==
    LET rows == OrderBy(SelectSeq(st.articles, LAMBDA a : Like(a.content, keyword)), "number")
    IN [i \in 1..Len(rows) |->
            [article |-> rows[i].number, title |-> rows[i].title,
             matches |-> MatchingParagraphs(st, rows[i].id, keyword)]]

(***************************************************************************)
(* Text of the document: a string is the sequence of its characters, each  *)
(* a string of length one.  The regular expressions of the extraction      *)
(* stages are operators over such strings; positions count from 1.         *)
(***************************************************************************)
DigitChars == {"0", "1", "2", "3", "4", "5", "6", "7", "8", "9"}
LowerLetters ==
    {"a", "b", "c", "d", "e", "f", "g", "h", "i", "j", "k", "l", "m",
     "n", "o", "p", "q", "r", "s", "t", "u", "v", "w", "x", "y", "z"}
RomanChars == {"i", "v", "x"}
WhiteChars == {" ", "\n", "\t"}

SetMin(S) == CHOOSE x \in S : \A y \in S : x <= y
SetMax(S) == CHOOSE x \in S : \A y \in S : x >= y

\* the position after the longest run of characters of class that starts at i
RunEnd(text, i, class) ==
    SetMin({j \in i..(Len(text) + 1) : j = Len(text) + 1 \/ text[j] \notin class})

\* the position of the first character of class at or after i, Len + 1 when none
FirstOf(text, i, class) ==
    SetMin({j \in i..(Len(text) + 1) : j = Len(text) + 1 \/ text[j] \in class})

\* the literal word occurs in text at position i
LiteralAt(text, i, word) ==
    /\ i >= 1 /\ i + Len(word) - 1 <= Len(text)
    /\ SubSeq(text, i, i + Len(word) - 1) = word

\* str.strip()
Strip(text) ==
    LET inked == {i \in 1..Len(text) : text[i] \notin WhiteChars}
    IN IF inked = {} THEN <<>> ELSE SubSeq(text, SetMin(inked), SetMax(inked))

\* "$": the end of the string, or the place before a newline that ends it
AtEnd(text, e) == e = Len(text) + 1 \/ (e = Len(text) /\ text[e] = "\n")

\* the concatenation of a sequence of strings
RECURSIVE Flatten(_)
Flatten(pieces) == IF pieces = <<>> THEN <<>> ELSE Head(pieces) \o Flatten(Tail(pieces))

(***************************************************************************)
(* extract_paragraphs_and_subparagraphs                                    *)
(***************************************************************************)
ArticleWord == <<"A", "r", "t", "i", "c", "l", "e">>

\* header_pattern "Article\s+(\d+)\s*-\s*([^\n]+)" tried at position i: the
\* position after the match, 0 when it does not match.  The title group runs
\* to the end of the line.
HeaderMatchEnd(text, i) ==
    IF ~LiteralAt(text, i, ArticleWord) THEN 0
    ELSE LET blank == i + Len(ArticleWord)
             digits == RunEnd(text, blank, WhiteChars)
             after == RunEnd(text, digits, DigitChars)
             dash == RunEnd(text, after, WhiteChars)
         IN IF digits = blank \/ after = digits \/ ~LiteralAt(text, dash, <<"-">>) THEN 0
            ELSE LET inked == RunEnd(text, dash + 1, WhiteChars)
                     titles == IF inked <= Len(text) THEN {inked}
                               ELSE {j \in (dash + 1)..Len(text) : text[j] # "\n"}
                 IN IF titles = {} THEN 0
                    ELSE FirstOf(text, SetMax(titles), {"\n"})

\* re.sub(header_pattern, '', content): every match, left to right, is cut out
RECURSIVE RemoveHeaders(_, _)
RemoveHeaders(text, from) ==
    LET starts == {i \in from..Len(text) : HeaderMatchEnd(text, i) # 0}
    IN IF starts = {} THEN SubSeq(text, from, Len(text))
       ELSE SubSeq(text, from, SetMin(starts) - 1)
            \o RemoveHeaders(text, HeaderMatchEnd(text, SetMin(starts)))

\* "\d+\." at position e
NumberMarkerAt(text, e) ==
    /\ e <= Len(text) /\ text[e] \in DigitChars
    /\ LiteralAt(text, RunEnd(text, e, DigitChars), <<".">>)

\* "\([a-z]\)" at position e
LetterMarkerAt(text, e) ==
    /\ e + 2 <= Len(text)
    /\ text[e] = "(" /\ text[e + 1] \in LowerLetters /\ text[e + 2] = ")"

\* "\([ivx]+\)" at position e: the position after it, 0 when it is not there
RomanMarkerEnd(text, e) ==
    IF e + 2 <= Len(text) /\ text[e] = "(" /\ text[e + 1] \in RomanChars
          /\ LiteralAt(text, RunEnd(text, e + 1, RomanChars), <<")">>)
    THEN RunEnd(text, e + 1, RomanChars) + 1
    ELSE 0

\* the lookahead of paragraph_pattern: "(?=(?:\d+\.)|(?:\([a-z]\))|$)"
ParagraphAhead(text, e) ==
    NumberMarkerAt(text, e) \/ LetterMarkerAt(text, e) \/ AtEnd(text, e)

\* paragraph_pattern "(\d+)\.(\s+[^0-9]+?)(?=...)" tried at position i: the
\* position after the match, 0 when it does not match.  The text group is
\* white space, then as few characters other than digits as reach a place
\* where the lookahead holds; when none does, the white space gives its last
\* character to the lazy part.
ParagraphMatchEnd(text, i) ==
    IF ~NumberMarkerAt(text, i) THEN 0
    ELSE LET group == RunEnd(text, i, DigitChars) + 1
             inked == RunEnd(text, group, WhiteChars)
             stop == FirstOf(text, inked, DigitChars)
             ends == {e \in (inked + 1)..stop : ParagraphAhead(text, e)}
         IN IF inked = group THEN 0
            ELSE IF ends # {} THEN SetMin(ends)
            ELSE IF inked - group >= 2 /\ ParagraphAhead(text, inked) THEN inked
            ELSE 0

\* subsubparagraph_pattern "\(([ivx]+)\)([^()]+?)(?=\([ivx]+\)|$)" tried at i
SubsubparagraphMatchEnd(text, i) ==
    IF RomanMarkerEnd(text, i) = 0 THEN 0
    ELSE LET group == RomanMarkerEnd(text, i)
             stop == FirstOf(text, group, {"(", ")"})
             ends == {e \in (group + 1)..stop :
                         RomanMarkerEnd(text, e) # 0 \/ AtEnd(text, e)}
         IN IF ends # {} THEN SetMin(ends) ELSE 0

\* re.finditer(subsubparagraph_pattern, subparagraph_text)
RECURSIVE Subsubparagraphs(_, _)
Subsubparagraphs(text, from) ==
    LET starts == {i \in from..Len(text) : SubsubparagraphMatchEnd(text, i) # 0}
    IN IF starts = {} THEN <<>>
       ELSE LET i == SetMin(starts)
                e == SubsubparagraphMatchEnd(text, i)
            IN <<[number |-> SubSeq(text, i + 1, RomanMarkerEnd(text, i) - 2),
                  text |-> Strip(SubSeq(text, RomanMarkerEnd(text, i), e - 1))]>>
               \o Subsubparagraphs(text, e)

\* subparagraph_pattern "\(([a-z])\)([^()]+?)(?=\([a-z]\)|$)" tried at i
SubparagraphMatchEnd(text, i) ==
    IF ~LetterMarkerAt(text, i) THEN 0
    ELSE LET stop == FirstOf(text, i + 3, {"(", ")"})
             ends == {e \in (i + 4)..stop : LetterMarkerAt(text, e) \/ AtEnd(text, e)}
         IN IF ends # {} THEN SetMin(ends) ELSE 0

\* re.finditer(subparagraph_pattern, text)
RECURSIVE Subparagraphs(_, _)
Subparagraphs(text, from) ==
    LET starts == {i \in from..Len(text) : SubparagraphMatchEnd(text, i) # 0}
    IN IF starts = {} THEN <<>>
       ELSE LET i == SetMin(starts)
                e == SubparagraphMatchEnd(text, i)
                subparagraph_text == Strip(SubSeq(text, i + 3, e - 1))
            IN <<[letter |-> <<text[i + 1]>>, text |-> subparagraph_text,
                  subsubparagraphs |-> Subsubparagraphs(subparagraph_text, 1)]>>
               \o Subparagraphs(text, e)

\* re.split(r'\([a-z]\)', text)[0].strip()
MainText(text) ==
    LET markers == {i \in 1..Len(text) : LetterMarkerAt(text, i)}
    IN IF markers = {} THEN Strip(text) ELSE Strip(SubSeq(text, 1, SetMin(markers) - 1))

\* re.finditer(paragraph_pattern, content): the paragraphs appended
RECURSIVE Paragraphs(_, _)
Paragraphs(content, from) ==
    LET starts == {i \in from..Len(content) : ParagraphMatchEnd(content, i) # 0}
    IN IF starts = {} THEN <<>>
       ELSE LET i == SetMin(starts)
                e == ParagraphMatchEnd(content, i)
                dot == RunEnd(content, i, DigitChars)
                text == Strip(SubSeq(content, dot + 1, e - 1))
                subparagraphs == Subparagraphs(text, 1)
            IN <<[number |-> SubSeq(content, i, dot - 1),
                  text |-> IF subparagraphs # <<>> THEN MainText(text) ELSE text,
                  subparagraphs |-> subparagraphs]>>
               \o Paragraphs(content, e)

\* a faulty variant of WholeContent: no paragraph is made of the content
NoParagraph(content) == <<>>

\* "paragraphs = [{'number': '1', 'text': content, 'subparagraphs': []}]"
WholeContent(content) ==
    <<[number |-> <<"1">>, text |-> content, subparagraphs |-> <<>>]>>

\* extract_paragraphs_and_subparagraphs: article['paragraphs']
extract_paragraphs_and_subparagraphs(article_content) ==
    LET content == Strip(RemoveHeaders(article_content, 1))
        paragraphs == Paragraphs(content, 1)
    IN IF paragraphs = <<>> THEN WholeContent(content) ELSE paragraphs

(***************************************************************************)
(* State                                                                   *)
(***************************************************************************)
\* the keys of the actors dict of identify_key_actors, in dict order
ActorTypes ==
    << <<"data", "_", "subject">>, <<"controller">>, <<"processor">>, <<"authority">>,
       <<"third", "_", "party">>, <<"recipient">> >>

ActorTypeSet == {ActorTypes[i] : i \in 1..Len(ActorTypes)}

\* the caches as __init__ and init_database set them
NoCaches ==
    [chapters |-> <<>>, sections |-> <<>>, definitions |-> <<>>,
     cross_references |-> <<>>, time_requirements |-> <<>>]

NoRet == [op |-> "none"]

\* reader threads, and the parsers they read through: one that both use, and
\* one of its own for each
Readers == {1, 2}
ParserNames == {"shared", "own1", "own2"}
OwnParser(r) == IF r = 1 THEN "own1" ELSE "own2"
NoThread == 0

\* no parser has a connection (conn: the thread that created self.conn,
\* cursor: the statement self.cursor has executed), no reader has called
NoReaders ==
    [conn |-> [p \in ParserNames |-> NoThread],
     cursor |-> [p \in ParserNames |-> <<>>],
     th |-> [r \in Readers |-> [pc |-> "idle"]]]

\* the path that __init__ stores and tests: r"D:\GDPR_1st\gdpr.pdf"
PdfPath == "D:\\GDPR_1st\\gdpr.pdf"

Init ==
    /\ self = NoCaches @@ [conn |-> FALSE, closed |-> FALSE]
    /\ args = [recitals |-> <<>>, articles |-> <<>>,
               actors |-> [t \in ActorTypeSet |-> <<>>], text |-> <<>>]
    /\ db = NoFile
    /\ tx = NoFile
    /\ pc = "idle"
    /\ loc = NoMaps
    /\ run = [mode |-> "none", stage |-> "new", result |-> "none", calls |-> 0,
              failed |-> 0, last |-> "none", nodes |-> 0, before |-> NoFile,
              extracted |-> NoCaches]
    /\ ret = NoRet
    /\ rd = NoReaders
    /\ files = {PdfPath}

(***************************************************************************)
(* init_database                                                           *)
(***************************************************************************)
\* the caches after init_database
ResetCaches(me) == NoCaches @@ [conn |-> TRUE, closed |-> FALSE]

\* init_database: a new connection (the uncommitted work of the connection it
\* replaces is rolled back when that connection is released), CREATE TABLE IF
\* NOT EXISTS, the caches set to empty, commit
InitDatabase ==
    /\ self' = ResetCaches(self)
    /\ db' = CreateTables(db)
    /\ tx' = CreateTables(db)

\* a caller of the stage methods creates the schema first, then extracts
DirectInitDatabase ==
    /\ run.stage = "new"
    /\ InitDatabase
    /\ run' = [run EXCEPT !.mode = "direct", !.stage = "extract"]
    /\ ret' = NoRet
    /\ UNCHANGED <<args, pc, loc, rd, files>>

\* a faulty variant of Caught: the exception is passed on to the caller
Rethrown(r) == [r EXCEPT !.stage = "returned", !.result = "thrown"]

\* "except Exception as e: logger.error(...); return False"
Caught(r) == [r EXCEPT !.stage = "returned", !.result = "False"]

\* parse_and_load is entered: the extraction stages run first
ParseAndLoadStart ==
    /\ run.stage = "new"
    /\ run' = [run EXCEPT !.mode = "parse", !.stage = "extract"]
    /\ ret' = NoRet
    /\ UNCHANGED <<self, args, db, tx, pc, loc, rd, files>>

\* an extraction stage of parse_and_load raises: caught, logged, return False
ParseStageRaise ==
    /\ run.mode = "parse" /\ run.stage = "extract"
    /\ run' = Caught([run EXCEPT !.last = "raised"])
    /\ ret' = NoRet
    /\ UNCHANGED <<self, args, db, tx, pc, loc, rd, files>>

\* every article leaves extract_paragraphs_and_subparagraphs with a paragraph
Decomposed == \A i \in 1..Len(args.articles) : args.articles[i].paragraphs # <<>>

\* the caller of the stage methods has its model
ExtractDone ==
    /\ run.mode = "direct" /\ run.stage = "extract"
    /\ Decomposed
    /\ run' = [run EXCEPT !.stage = "ready"]
    /\ ret' = NoRet
    /\ UNCHANGED <<self, args, db, tx, pc, loc, rd, files>>

\* parse_and_load after its extraction stages: init_database, then
\* populate_database is entered.  The locals toc, cross_references, definitions
\* keep what the stages returned.
ParseInitDatabase ==
    /\ run.mode = "parse" /\ run.stage = "extract"
    /\ Decomposed
    /\ InitDatabase
    /\ pc' = "chapters"
    /\ loc' = NoMaps
    /\ run' = [run EXCEPT !.stage = "populate", !.before = CreateTables(db),
                          !.extracted = [f \in DOMAIN NoCaches |-> self[f]]]
    /\ ret' = NoRet
    /\ UNCHANGED <<args, rd, files>>

(***************************************************************************)
(* populate_database                                                       *)
(***************************************************************************)
\* populate_database(document, recitals, articles, actors) is called on the parser
PopulateCall ==
    /\ run.stage \in {"ready", "returned"} /\ pc = "idle"
    /\ self.conn /\ ~self.closed
    /\ run.calls + run.failed < MaxPopulate
    /\ pc' = "chapters"
    /\ loc' = NoMaps
    /\ run' = [run EXCEPT !.before = tx]
    /\ ret' = NoRet
    /\ UNCHANGED <<self, args, db, tx, rd, files>>

PopulateChapters ==
    /\ pc = "chapters"
    /\ LET r == InsertChapters(tx, loc.chapter_id_map, self.chapters)
       IN /\ tx' = r.st
          /\ loc' = [loc EXCEPT !.chapter_id_map = r.chapter_id_map]
    /\ pc' = "sections"
    /\ UNCHANGED <<self, args, db, run, ret, rd, files>>

PopulateSections ==
    /\ pc = "sections"
    /\ LET r == InsertSections(tx, loc.section_id_map, self.sections, args.articles,
                               loc.chapter_id_map)
       IN /\ tx' = r.st
          /\ loc' = [loc EXCEPT !.section_id_map = r.section_id_map]
    /\ pc' = "recitals"
    /\ UNCHANGED <<self, args, db, run, ret, rd, files>>

PopulateRecitals ==
    /\ pc = "recitals"
    /\ tx' = InsertRecitals(tx, args.recitals)
    /\ pc' = IF args.articles = <<>> THEN "definitions" ELSE "articles"
    /\ UNCHANGED <<self, args, db, loc, run, ret, rd, files>>

\* one iteration of the article loop: the next article not yet in the store
PopulateArticle ==
    /\ pc = "articles"
    /\ LET done == Len(tx.articles) - Len(run.before.articles)
           r == InsertArticle(tx, loc, args.articles[done + 1])
       IN /\ tx' = r.st
          /\ loc' = r.maps
          /\ pc' = IF done + 1 = Len(args.articles) THEN "definitions" ELSE "articles"
    /\ UNCHANGED <<self, args, db, run, ret, rd, files>>

PopulateDefinitions ==
    /\ pc = "definitions"
    /\ tx' = InsertDefinitions(tx, loc, self.definitions)
    /\ pc' = "cross_references"
    /\ UNCHANGED <<self, args, db, loc, run, ret, rd, files>>

PopulateCrossReferences ==
    /\ pc = "cross_references"
    /\ tx' = InsertCrossReferences(tx, loc, self.cross_references)
    /\ pc' = "time_requirements"
    /\ UNCHANGED <<self, args, db, loc, run, ret, rd, files>>

\* the exception of populate_database reaches its caller: parse_and_load
\* handles it, a caller of the stage methods sees it
Raised(r) ==
    IF r.stage = "populate" THEN Caught([r EXCEPT !.failed = @ + 1, !.last = "raised"])
    ELSE [r EXCEPT !.failed = @ + 1, !.last = "raised"]

PopulateTimeRequirements ==
    /\ pc = "time_requirements"
    /\ LET r == InsertTimeRequirements(tx, loc, self.time_requirements)
       IN /\ tx' = r.st
          /\ pc' = IF r.raised THEN "idle" ELSE "key_actors"
          /\ run' = IF r.raised THEN Raised(run) ELSE run
    /\ UNCHANGED <<self, args, db, loc, ret, rd, files>>

\* actors.items() flattened: the mentions in the order the nested loop visits them
RECURSIVE ActorItems(_, _)
ActorItems(actors, types) ==
    IF types = <<>> THEN <<>>
    ELSE [i \in 1..Len(actors[Head(types)]) |->
             [actor_type |-> Head(types), article |-> actors[Head(types)][i].article,
              text |-> actors[Head(types)][i].text]]
         \o ActorItems(actors, Tail(types))

PopulateKeyActors ==
    /\ pc = "key_actors"
    /\ tx' = InsertKeyActors(tx, loc, ActorItems(args.actors, ActorTypes))
    /\ pc' = "policy_sections"
    /\ UNCHANGED <<self, args, db, loc, run, ret, rd, files>>

PopulatePolicySections ==
    /\ pc = "policy_sections"
    /\ tx' = InsertPolicySections(tx, 1)
    /\ pc' = "commit"
    /\ UNCHANGED <<self, args, db, loc, run, ret, rd, files>>

\* what self.conn.commit() leaves in the database file
Commit(file, seen) == seen

\* self.conn.commit() and the return of populate_database
PopulateCommit ==
    /\ pc = "commit"
    /\ db' = Commit(db, tx)
    /\ pc' = "idle"
    /\ run' = IF run.stage = "populate"
              THEN [run EXCEPT !.stage = "returned", !.result = "True", !.calls = @ + 1,
                               !.last = "committed"]
              ELSE [run EXCEPT !.calls = @ + 1, !.last = "committed"]
    /\ UNCHANGED <<self, args, tx, loc, ret, rd, files>>

\* the statement populate_database is about to execute fails in the storage
\* engine (disk full, I/O error, locked file): the exception leaves
\* populate_database, which has no handler and no rollback
PopulateRaise ==
    /\ pc # "idle"
    /\ pc' = "idle"
    /\ run' = Raised(run)
    /\ UNCHANGED <<self, args, db, tx, loc, ret, rd, files>>

(***************************************************************************)
(* The extraction stages, seen from the store: each step is one append of  *)
(* an extraction loop; the matched text is the environment's choice.       *)
(***************************************************************************)
ArticleNumbers == {<<1>>, <<2>>}          \* "1", "2"
ParagraphNumbers == {<<1, 0>>, <<2>>}     \* "10", "2"
Letters == {<<1>>, <<2>>}                 \* "a", "b"
RomanNumbers == {<<1, 3>>, <<2>>}         \* "ix", "v"  (i = 1, v = 2, x = 3)

Extracting == run.stage = "extract" /\ run.nodes < MaxNodes

\* the literal text of the next node: no two nodes of a document share it
NextText == <<run.nodes + 1>>

LastArticle == Len(args.articles)
LastParagraph == Len(args.articles[LastArticle].paragraphs)
LastSubparagraph == Len(args.articles[LastArticle].paragraphs[LastParagraph].subparagraphs)

\* articles.append({...}) in extract_articles_with_structure
ExtractArticle(number) ==
    /\ Extracting
    /\ Decomposed
    /\ args' = [args EXCEPT !.articles =
                   Append(@, [number |-> number, title |-> NextText, content |-> NextText,
                              chapter |-> <<>>, section |-> <<>>, paragraphs |-> <<>>,
                              requirements |-> <<>>, entities |-> <<>>])]
    /\ run' = [run EXCEPT !.nodes = @ + 1]
    /\ UNCHANGED <<self, db, tx, pc, loc, ret, rd, files>>

\* paragraphs.append({...}) in extract_paragraphs_and_subparagraphs
ExtractParagraph(number) ==
    /\ Extracting
    /\ args.articles # <<>>
    /\ args' = [args EXCEPT !.articles[LastArticle].paragraphs =
                   Append(@, [number |-> number, text |-> NextText, subparagraphs |-> <<>>])]
    /\ run' = [run EXCEPT !.nodes = @ + 1]
    /\ UNCHANGED <<self, db, tx, pc, loc, ret, rd, files>>

\* subparagraphs.append({...})
ExtractSubparagraph(letter) ==
    /\ Extracting
    /\ args.articles # <<>>
    /\ LastParagraph > 0
    /\ args' = [args EXCEPT !.articles[LastArticle].paragraphs[LastParagraph].subparagraphs =
                   Append(@, [letter |-> letter, text |-> NextText,
                              subsubparagraphs |-> <<>>])]
    /\ run' = [run EXCEPT !.nodes = @ + 1]
    /\ UNCHANGED <<self, db, tx, pc, loc, ret, rd, files>>

\* subsubparagraphs.append({...})
ExtractSubsubparagraph(number) ==
    /\ Extracting
    /\ args.articles # <<>>
    /\ LastParagraph > 0
    /\ LastSubparagraph > 0
    /\ args' = [args EXCEPT
                   !.articles[LastArticle].paragraphs[LastParagraph]
                        .subparagraphs[LastSubparagraph].subsubparagraphs =
                       Append(@, [number |-> number, text |-> NextText])]
    /\ run' = [run EXCEPT !.nodes = @ + 1]
    /\ UNCHANGED <<self, db, tx, pc, loc, ret, rd, files>>

(***************************************************************************)
(* Read queries issued on the parser                                       *)
(***************************************************************************)
QueryNumbers == ArticleNumbers \cup {<<3>>}
QueryRoles == {<<"controller">>, <<"data", "_", "subject">>, <<"auditor">>}

\* a read can be issued: no populate_database call is running on the parser
Readable == pc = "idle" /\ run.stage \in {"ready", "returned"}

\* "if not self.conn: self.conn = sqlite3.connect(self.db_path)"
Connected == self' = [self EXCEPT !.conn = TRUE] /\ tx' = (IF self.conn THEN tx ELSE db)

\* what the connection of a read sees
View == IF self.conn THEN tx ELSE db

\* the outcome of a query: sqlite3.ProgrammingError on a closed connection,
\* sqlite3.OperationalError (no such table) when the file has no schema, the
\* value otherwise
Outcome(op, arg, value) ==
    IF View.schema /\ ~self.closed THEN [op |-> op, arg |-> arg, raised |-> FALSE, value |-> value]
    ELSE [op |-> op, arg |-> arg, raised |-> TRUE, value |-> <<>>]

ReadArticle(number) ==
    /\ Readable
    /\ Connected
    /\ ret' = Outcome("get_article_by_number", number,
                      IF View.schema THEN get_article_by_number(View, number) ELSE <<>>)
    /\ UNCHANGED <<args, db, pc, loc, run, rd, files>>

ReadRole(role) ==
    /\ Readable
    /\ Connected
    /\ ret' = Outcome("get_requirements_for_role", role,
                      IF View.schema THEN get_requirements_for_role(View, role) ELSE <<>>)
    /\ UNCHANGED <<args, db, pc, loc, run, rd, files>>

\* close(): the connection is closed, self.conn keeps referring to it; work
\* that was not committed is gone
Close ==
    /\ Readable
    /\ self.conn /\ ~self.closed
    /\ self' = [self EXCEPT !.closed = TRUE]
    /\ tx' = db
    /\ ret' = NoRet
    /\ UNCHANGED <<args, db, pc, loc, run, rd, files>>

ReadSearch(keyword) ==
    /\ Readable
    /\ Connected
    /\ ret' = Outcome("search_by_keyword", keyword,
                      IF View.schema THEN search_by_keyword(View, keyword) ELSE <<>>)
    /\ UNCHANGED <<args, db, pc, loc, run, rd, files>>

ReadExport ==
    /\ Readable
    /\ Connected
    /\ ret' = Outcome("export_to_json", <<>>,
                      IF View.schema THEN <<export_to_json(View)>> ELSE <<>>)
    /\ UNCHANGED <<args, db, pc, loc, run, rd, files>>

(***************************************************************************)
(* TreeSpec: a caller of the stage methods extracts a document tree,       *)
(* populates the store with it (up to MaxPopulate times) and reads it back *)
(***************************************************************************)
\* the statements of populate_database, in program order
PopulateSteps ==
    \/ PopulateChapters
    \/ PopulateSections
    \/ PopulateRecitals
    \/ PopulateArticle
    \/ PopulateDefinitions
    \/ PopulateCrossReferences
    \/ PopulateTimeRequirements
    \/ PopulateKeyActors
    \/ PopulatePolicySections
    \/ PopulateCommit

TreeNext ==
    \/ DirectInitDatabase
    \/ \E n \in ArticleNumbers : ExtractArticle(n)
    \/ \E n \in ParagraphNumbers : ExtractParagraph(n)
    \/ \E l \in Letters : ExtractSubparagraph(l)
    \/ \E n \in RomanNumbers : ExtractSubsubparagraph(n)
    \/ ExtractDone
    \/ PopulateCall
    \/ PopulateSteps
    \/ \E n \in QueryNumbers : ReadArticle(n)
    \/ ReadExport

TreeSpec == Init /\ [][TreeNext]_vars

(***************************************************************************)
(* More extraction appends: document structure, definitions, references,   *)
(* requirements, key actors                                                *)
(***************************************************************************)
MaxItems == 3        \* appends of the structure stages in one extraction

ChapterNumbers == {"I", "II"}
SectionNumbers == {"1"}
Terms == {<<1>>}                          \* one glossary term, as character codes
\* sentences of requirement text (word and space chunks)
ControllerSentence == <<"the", " ", "controller", " ", "shall", " ", "erase">>
CapitalSentence == <<"Controller", " ", "must", " ", "comply">>
ProcessorSentence == <<"the", " ", "processor", " ", "shall", " ", "notify">>

ExtractingItems == run.stage = "extract" /\ run.nodes < MaxItems

\* self.chapters.append({...}) in extract_table_of_contents
ExtractChapter(number) ==
    /\ ExtractingItems
    /\ args.articles = <<>>
    /\ self' = [self EXCEPT !.chapters = Append(@, [number |-> number, title |-> "chapter"])]
    /\ run' = [run EXCEPT !.nodes = @ + 1]
    /\ UNCHANGED <<args, db, tx, pc, loc, ret, rd, files>>

\* self.sections.append({...}) in extract_table_of_contents
ExtractSection(number) ==
    /\ ExtractingItems
    /\ args.articles = <<>>
    /\ self' = [self EXCEPT !.sections = Append(@, [number |-> number, title |-> "section"])]
    /\ run' = [run EXCEPT !.nodes = @ + 1]
    /\ UNCHANGED <<args, db, tx, pc, loc, ret, rd, files>>

\* recitals.append({...}) in extract_recitals
ExtractRecital ==
    /\ ExtractingItems
    /\ args.articles = <<>>
    /\ args' = [args EXCEPT !.recitals =
                   Append(@, [number |-> <<Len(@) + 1>>, content |-> NextText])]
    /\ run' = [run EXCEPT !.nodes = @ + 1]
    /\ UNCHANGED <<self, db, tx, pc, loc, ret, rd, files>>

\* the tag extract_articles_with_structure gives an article: None, or the
\* number and title of the interval that contains the header
Tags(numbers, title) == {<<>>} \cup {<<[number |-> n, title |-> title]>> : n \in numbers}

\* articles.append({...}) with its chapter and section tags, then the one
\* paragraph "1" that extract_paragraphs_and_subparagraphs gives an article
\* without numbered paragraphs
ExtractTaggedArticle(number, chapter, section) ==
    /\ ExtractingItems
    /\ args' = [args EXCEPT !.articles =
                   Append(@, [number |-> number, title |-> NextText, content |-> NextText,
                              chapter |-> chapter, section |-> section,
                              paragraphs |-> <<[number |-> <<1>>, text |-> NextText,
                                                subparagraphs |-> <<>>]>>,
                              requirements |-> <<>>, entities |-> <<>>])]
    /\ run' = [run EXCEPT !.nodes = @ + 1]
    /\ UNCHANGED <<self, db, tx, pc, loc, ret, rd, files>>

\* a faulty variant of SetDefinition: the entry a term already has is kept
KeepDefinition(definitions, d) ==
    IF \E i \in 1..Len(definitions) : definitions[i].term = d.term
    THEN definitions
    ELSE Append(definitions, d)

\* definitions[term] = {...}: a dict keeps the position of a key it already has
SetDefinition(definitions, d) ==
    IF \E i \in 1..Len(definitions) : definitions[i].term = d.term
    THEN [i \in 1..Len(definitions) |->
             IF definitions[i].term = d.term THEN d ELSE definitions[i]]
    ELSE Append(definitions, d)

\* a match of a definition pattern in the paragraph of the last article
ExtractDefinition(term) ==
    /\ ExtractingItems
    /\ args.articles # <<>>
    /\ self' = [self EXCEPT !.definitions =
                   SetDefinition(@, [term |-> term, definition |-> NextText,
                                     article |-> args.articles[LastArticle].number,
                                     paragraph |-> <<1>>, subparagraph |-> <<>>])]
    /\ run' = [run EXCEPT !.nodes = @ + 1]
    /\ UNCHANGED <<args, db, tx, pc, loc, ret, rd, files>>

\* cross_references[article_num].append(reference) unless it is a
\* self-reference or already listed
AddReference(cross_references, from, reference) ==
    IF \E i \in 1..Len(cross_references) : cross_references[i].from_article = from
    THEN [i \in 1..Len(cross_references) |->
             IF cross_references[i].from_article = from
                /\ \A j \in 1..Len(cross_references[i].references) :
                       cross_references[i].references[j] # reference
             THEN [cross_references[i] EXCEPT !.references = Append(@, reference)]
             ELSE cross_references[i]]
    ELSE Append(cross_references, [from_article |-> from, references |-> <<reference>>])

\* a match of article_ref_pattern in the content of the last article
ExtractCrossReference(to) ==
    /\ ExtractingItems
    /\ args.articles # <<>>
    /\ to # args.articles[LastArticle].number
    /\ self' = [self EXCEPT !.cross_references =
                   AddReference(@, args.articles[LastArticle].number,
                                [article |-> to, paragraph |-> <<>>])]
    /\ run' = [run EXCEPT !.nodes = @ + 1]
    /\ UNCHANGED <<args, db, tx, pc, loc, ret, rd, files>>

\* a sentence of the paragraph of the last article that extract_requirements
\* keeps: requirements.append(req), and self.time_requirements.append when it
\* is time-bound
ExtractRequirement(text, is_right, is_time_requirement) ==
    /\ ExtractingItems
    /\ args.articles # <<>>
    /\ args' = [args EXCEPT !.articles[LastArticle].requirements =
                   Append(@, [paragraph |-> <<1>>, subparagraph |-> <<>>, text |-> text,
                              is_obligation |-> ~is_right, is_right |-> is_right,
                              is_time_requirement |-> is_time_requirement])]
    /\ self' = IF is_time_requirement
               THEN [self EXCEPT !.time_requirements =
                        Append(@, [article |-> args.articles[LastArticle].number,
                                   paragraph |-> <<1>>, subparagraph |-> <<>>,
                                   text |-> text])]
               ELSE self
    /\ run' = [run EXCEPT !.nodes = @ + 1]
    /\ UNCHANGED <<db, tx, pc, loc, ret, rd, files>>

\* actors[actor_type].append({...}) in identify_key_actors: a sentence of the
\* last article that contains a keyword of the type
IdentifyKeyActor(actor_type, text) ==
    /\ ExtractingItems
    /\ args.articles # <<>>
    /\ args' = [args EXCEPT !.actors[actor_type] =
                   Append(@, [article |-> args.articles[LastArticle].number,
                              text |-> text])]
    /\ run' = [run EXCEPT !.nodes = @ + 1]
    /\ UNCHANGED <<self, db, tx, pc, loc, ret, rd, files>>

(***************************************************************************)
(* Spec: parse_and_load, or a caller of the stage methods, on a document   *)
(* with chapters, sections, definitions, references and time requirements; *)
(* the storage engine may fail any statement of populate_database          *)
(***************************************************************************)
\* the (chapter, section) tags of an article: outside every interval, in
\* a chapter without sections, in a section of a chapter
TagPairs ==
    { <<c, s>> \in Tags(ChapterNumbers, "chapter") \X Tags(SectionNumbers, "section") :
        /\ s # <<>> => c # <<>>
        /\ c # <<>> => c[1].number = "I" }

Next ==
    \/ ParseAndLoadStart
    \/ ParseStageRaise
    \/ \E n \in ChapterNumbers : ExtractChapter(n)
    \/ \E n \in SectionNumbers : ExtractSection(n)
    \/ ExtractRecital
    \/ \E n \in ArticleNumbers, t \in TagPairs : ExtractTaggedArticle(n, t[1], t[2])
    \/ \E t \in Terms : ExtractDefinition(t)
    \/ \E n \in ArticleNumbers : ExtractCrossReference(n)
    \/ ExtractRequirement(ControllerSentence, FALSE, TRUE)
    \/ IdentifyKeyActor(<<"controller">>, ControllerSentence)
    \/ ParseInitDatabase
    \/ PopulateSteps
    \/ PopulateRaise
    \/ \E n \in QueryNumbers : ReadArticle(n)
    \/ \E r \in QueryRoles : ReadRole(r)
    \/ Close

Spec == Init /\ [][Next]_vars

(***************************************************************************)
(* StoreSpec: a caller of the stage methods creates the schema, extracts a *)
(* document with structure, requirements and key actors, populates the     *)
(* store with it (up to MaxPopulate times) and queries it                  *)
(***************************************************************************)
StoreNext ==
    \/ DirectInitDatabase
    \/ ExtractChapter("I")
    \/ ExtractSection("1")
    \/ ExtractRecital
    \/ \E n \in ArticleNumbers : ExtractTaggedArticle(n, <<>>, <<>>)
    \/ \E t \in Terms : ExtractDefinition(t)
    \/ ExtractCrossReference(<<1>>)
    \/ \E t \in {ControllerSentence, CapitalSentence, ProcessorSentence} :
          ExtractRequirement(t, FALSE, t = ProcessorSentence)
    \/ IdentifyKeyActor(<<"controller">>, ControllerSentence)
    \/ IdentifyKeyActor(<<"processor">>, ProcessorSentence)
    \/ ExtractDone
    \/ PopulateCall
    \/ PopulateSteps
    \/ \E n \in QueryNumbers : ReadArticle(n)
    \/ \E r \in QueryRoles : ReadRole(r)

StoreSpec == Init /\ [][StoreNext]_vars

(***************************************************************************)
(* ReadersSpec: the store is populated, then two threads read it, each     *)
(* through a parser of its own or through a parser both use.  A read is    *)
(* its steps on self.conn and self.cursor: the test of self.conn, the      *)
(* connect, the first execute, the fetch and what follows it.              *)
(***************************************************************************)
\* a faulty variant of ConnSlot: conn and cursor as attributes of the class
ClassConnSlot(p) == "shared"

\* self.conn and self.cursor are attributes of the parser object
ConnSlot(p) == p

ReadOps ==
    { [op |-> "get_article_by_number", arg |-> <<1>>],
      [op |-> "search_by_keyword", arg |-> <<1>>],
      [op |-> "get_requirements_for_role", arg |-> <<"controller">>],
      [op |-> "export_to_json", arg |-> <<>>] }

\* what the statements of a read query return on a connection to the file
Answer(q) ==
    CASE q.op = "get_article_by_number" -> get_article_by_number(db, q.arg)
      [] q.op = "search_by_keyword" -> search_by_keyword(db, q.arg)
      [] q.op = "get_requirements_for_role" -> get_requirements_for_role(db, q.arg)
      [] q.op = "export_to_json" -> <<export_to_json(db)>>

\* sqlite3 lets only the thread that created a connection use it and its cursors
MayUse(r, p) == rd.conn[ConnSlot(p)] = r

\* sqlite3.ProgrammingError ends the read of thread r
ReaderRaised(r) == [rd EXCEPT !.th[r].pc = "done", !.th[r].raised = TRUE]

\* thread r calls a read query on parser p
ReaderCall(r, p, q) ==
    /\ Readable /\ run.calls >= 1
    /\ rd.th[r].pc = "idle"
    /\ rd' = [rd EXCEPT !.th[r] = [pc |-> "check", parser |-> p, op |-> q.op, arg |-> q.arg,
                                   raised |-> FALSE, value |-> <<>>]]
    /\ UNCHANGED <<self, args, db, tx, pc, loc, run, ret, files>>

\* "if not self.conn:"
ReaderCheck(r) ==
    /\ rd.th[r].pc = "check"
    /\ rd' = [rd EXCEPT !.th[r].pc =
                 IF rd.conn[ConnSlot(rd.th[r].parser)] = NoThread THEN "connect" ELSE "execute"]
    /\ UNCHANGED <<self, args, db, tx, pc, loc, run, ret, files>>

\* "self.conn = sqlite3.connect(self.db_path); self.cursor = self.conn.cursor()"
ReaderConnect(r) ==
    /\ rd.th[r].pc = "connect"
    /\ rd' = [rd EXCEPT !.conn[ConnSlot(rd.th[r].parser)] = r,
                        !.cursor[ConnSlot(rd.th[r].parser)] = <<>>,
                        !.th[r].pc = "execute"]
    /\ UNCHANGED <<self, args, db, tx, pc, loc, run, ret, files>>

\* the first self.cursor.execute of the query
ReaderExecute(r) ==
    /\ rd.th[r].pc = "execute"
    /\ rd' = IF MayUse(r, rd.th[r].parser)
             THEN [rd EXCEPT !.cursor[ConnSlot(rd.th[r].parser)] =
                                 <<[op |-> rd.th[r].op, arg |-> rd.th[r].arg]>>,
                             !.th[r].pc = "fetch"]
             ELSE ReaderRaised(r)
    /\ UNCHANGED <<self, args, db, tx, pc, loc, run, ret, files>>

\* the fetch from self.cursor, then the rest of the query up to its return
ReaderFetch(r) ==
    /\ rd.th[r].pc = "fetch"
    /\ rd' = IF MayUse(r, rd.th[r].parser) /\ rd.cursor[ConnSlot(rd.th[r].parser)] # <<>>
             THEN [rd EXCEPT !.th[r].pc = "done",
                             !.th[r].value = Answer(rd.cursor[ConnSlot(rd.th[r].parser)][1])]
             ELSE ReaderRaised(r)
    /\ UNCHANGED <<self, args, db, tx, pc, loc, run, ret, files>>

\* populate_database is called while no reader has called yet
PopulateBeforeReaders == rd = NoReaders /\ PopulateCall

ReadersNext ==
    \/ DirectInitDatabase
    \/ \E n \in ArticleNumbers : ExtractTaggedArticle(n, <<>>, <<>>)
    \/ ExtractRequirement(ControllerSentence, FALSE, FALSE)
    \/ IdentifyKeyActor(<<"controller">>, ControllerSentence)
    \/ ExtractDone
    \/ PopulateBeforeReaders
    \/ PopulateSteps
    \/ \E r \in Readers, q \in ReadOps : ReaderCall(r, "shared", q)
    \/ \E r \in Readers, q \in ReadOps : ReaderCall(r, OwnParser(r), q)
    \/ \E r \in Readers : ReaderCheck(r)
    \/ \E r \in Readers : ReaderConnect(r)
    \/ \E r \in Readers : ReaderExecute(r)
    \/ \E r \in Readers : ReaderFetch(r)

ReadersSpec == Init /\ [][ReadersNext]_vars

(***************************************************************************)
(* SearchSpec: a caller of the stage methods stores one article whose one  *)
(* paragraph is a word between two runs of filler, and searches the store  *)
(***************************************************************************)
\* lengths of filler before and after the word, around the snippet radius
Pads == {0, SnippetRadius - 1, SnippetRadius, SnippetRadius + 1}

\* n times the letter "x"
Fill(n) == [i \in 1..n |-> 120]

\* the words "abc", "ABC" of the paragraphs; the keywords "abc", "a_c", "d"
Words == {<<97, 98, 99>>, <<65, 66, 67>>}
Keywords == {<<97, 98, 99>>, <<97, 95, 99>>, <<100>>}

\* articles.append({...}) of an article without numbered paragraphs: its
\* content becomes its paragraph "1"
ExtractPaddedArticle(before, word, after) ==
    /\ run.stage = "extract" /\ args.articles = <<>>
    /\ LET content == Fill(before) \o word \o Fill(after)
       IN args' = [args EXCEPT !.articles =
                      <<[number |-> <<1>>, title |-> <<1>>, content |-> content,
                         chapter |-> <<>>, section |-> <<>>,
                         paragraphs |-> <<[number |-> <<1>>, text |-> content,
                                           subparagraphs |-> <<>>]>>,
                         requirements |-> <<>>, entities |-> <<>>]>>]
    /\ run' = [run EXCEPT !.nodes = @ + 1]
    /\ UNCHANGED <<self, db, tx, pc, loc, ret, rd, files>>

SearchNext ==
    \/ DirectInitDatabase
    \/ \E before \in Pads, word \in Words, after \in Pads :
          ExtractPaddedArticle(before, word, after)
    \/ ExtractDone
    \/ PopulateCall
    \/ PopulateSteps
    \/ \E keyword \in Keywords : ReadSearch(keyword)

SearchSpec == Init /\ [][SearchNext]_vars

(***************************************************************************)
(* The paragraph stage on article contents.  The content of an article is  *)
(* written piece by piece: a paragraph number marker, a lettered or roman  *)
(* marker, or a word, each after a blank.  args.text keeps the pieces, so  *)
(* the structure the text was written with is known beside the text.       *)
(***************************************************************************)
MaxPieces == 6       \* pieces of one article content

DigitNames == <<"1", "2", "3", "4", "5", "6", "7", "8", "9">>
LetterNames == <<"a", "b", "c", "d", "e", "f", "g", "h", "j">>

NumberPiece(k) == <<" ", DigitNames[k], ".">>
LetterPiece(k) == <<" ", "(", LetterNames[k], ")">>
RomanPiece == <<" ", "(", "i", ")">>
PlainWords == {<<" ", "D", ".">>, <<" ", "f", ";">>}
DigitWord == <<" ", "T", "1", ".">>

NumberPieces == {NumberPiece(k) : k \in 1..Len(DigitNames)}
LetterPieces == {LetterPiece(k) : k \in 1..Len(LetterNames)}

\* how many pieces of kind the text holds from position from on
CountPieces(pieces, from, kind) ==
    Cardinality({i \in from..Len(pieces) : pieces[i] \in kind})

\* the position of the last paragraph number marker of the pieces
LastNumberPiece(pieces) ==
    SetMax({i \in 1..Len(pieces) : pieces[i] \in NumberPieces})

\* the caller writes the next piece of the article content: the next
\* paragraph number, the next letter of the paragraph, a roman marker or a word
WritePiece(piece) ==
    /\ run.stage = "new" /\ args.articles = <<>>
    /\ Len(args.text) < MaxPieces /\ Len(args.text) < Len(DigitNames)
    /\ \/ piece = NumberPiece(CountPieces(args.text, 1, NumberPieces) + 1)
       \/ /\ args.text # <<>>
          /\ \/ piece = LetterPiece(CountPieces(args.text, LastNumberPiece(args.text),
                                                LetterPieces) + 1)
             \/ piece = RomanPiece
             \/ piece \in PlainWords
             \/ piece = DigitWord
    /\ args' = [args EXCEPT !.text = Append(@, piece)]
    /\ UNCHANGED <<self, db, tx, pc, loc, run, ret, rd, files>>

\* extract_paragraphs_and_subparagraphs called on the article with that content
ExtractParagraphs ==
    /\ run.stage = "new" /\ args.articles = <<>> /\ args.text # <<>>
    /\ LET content == Strip(Flatten(args.text))
       IN args' = [args EXCEPT !.articles =
                      <<[number |-> <<"1">>, title |-> <<"T">>, content |-> content,
                         chapter |-> <<>>, section |-> <<>>,
                         paragraphs |-> extract_paragraphs_and_subparagraphs(content),
                         requirements |-> <<>>, entities |-> <<>>]>>]
    /\ UNCHANGED <<self, db, tx, pc, loc, run, ret, rd, files>>

AllPieces == NumberPieces \cup LetterPieces \cup PlainWords \cup {RomanPiece, DigitWord}

ParagraphNext ==
    \/ \E piece \in AllPieces : WritePiece(piece)
    \/ ExtractParagraphs

ParagraphSpec == Init /\ [][ParagraphNext]_vars

(***************************************************************************)
(* Claims checked under Spec                                               *)
(***************************************************************************)
\* a row of table holds the value v in column col
HasRow(st, table, col, v) == \E i \in 1..Len(st[table]) : st[table][i][col] = v

\* C1 (as claimed): after parse_and_load has returned True, every chapter,
\* section, definition and cross-reference that the extraction stages produced
\* has a row in the committed store.
C1_NothingLost ==
    run.result = "True" =>
        /\ \A i \in 1..Len(run.extracted.chapters) :
               HasRow(db, "chapters", "number", run.extracted.chapters[i].number)
        /\ \A i \in 1..Len(run.extracted.sections) :
               HasRow(db, "sections", "number", run.extracted.sections[i].number)
        /\ \A i \in 1..Len(run.extracted.definitions) :
               HasRow(db, "definitions", "term", run.extracted.definitions[i].term)
        /\ \A i \in 1..Len(run.extracted.cross_references) :
               \A j \in 1..Len(run.extracted.cross_references[i].references) :
                   \E k \in 1..Len(db.cross_references) :
                       /\ db.articles[db.cross_references[k].from_article_id].number
                              = run.extracted.cross_references[i].from_article
                       /\ db.articles[db.cross_references[k].to_article_id].number
                              = run.extracted.cross_references[i].references[j].article

\* C2 (as claimed): when populate_database has failed, the store seen through
\* the parser's connection and the committed store are what they were before
\* the call: none of the rows inserted before the failure is visible.
C2_AllOrNothing ==
    (pc = "idle" /\ run.last = "raised") => (View = run.before /\ db = run.before)

\* C8 (as claimed): a parse run that has ended either ran every stage and
\* committed the population, or threw the failure of a stage to its caller.
C8_CompletesOrThrows ==
    run.stage = "returned" =>
        \/ run.result = "True" /\ run.last = "committed" /\ db = tx
        \/ run.result = "thrown"

\* C8 as the code has it: a parse run has exactly two outcomes.  It returns
\* True exactly when every stage ran to completion and the population was
\* committed; it returns False exactly when a stage raised, the exception being
\* caught inside parse_and_load and no row of the population committed.
\* Nothing is thrown to the caller.
C8_ReturnsTrueOrFalse ==
    /\ run.result \in {"none", "True", "False"}
    /\ run.stage = "returned" => run.result \in {"True", "False"}
    /\ run.result = "True" <=> run.last = "committed"
    /\ run.result = "False" <=> run.last = "raised"
    /\ run.result = "True" => (db = tx /\ run.failed = 0)
    /\ run.result = "False" => db = run.before

\* C8 witness: populate_database raised after it had inserted an article, and
\* the parse run returned False
C8_Witness ==
    /\ run.stage = "returned" /\ run.result = "False"
    /\ Len(tx.articles) > 0

(***************************************************************************)
(* Claims checked under TreeSpec                                           *)
(***************************************************************************)
Range(seq) == {seq[i] : i \in 1..Len(seq)}

\* a tree as the set of its nodes, each with its own texts, the number of its
\* children and the set of its children: two trees are equal exactly when no
\* node is lost, added or under another parent
SubsubNodes(seq) == {[number |-> x.number, text |-> x.text] : x \in Range(seq)}

SubNodes(seq) ==
    {[letter |-> x.letter, text |-> x.text, size |-> Len(x.subsubparagraphs),
      subsubparagraphs |-> SubsubNodes(x.subsubparagraphs)] : x \in Range(seq)}

ParNodes(seq) ==
    {[number |-> x.number, text |-> x.text, size |-> Len(x.subparagraphs),
      subparagraphs |-> SubNodes(x.subparagraphs)] : x \in Range(seq)}

TreeOf(a) ==
    [number |-> a.number, title |-> a.title, content |-> a.content,
     size |-> Len(a.paragraphs), paragraphs |-> ParNodes(a.paragraphs)]

\* the articles of the populated model that carry a number, in list order
ArticlesNumbered(number) ==
    {i \in 1..Len(args.articles) : args.articles[i].number = number}

\* get_article_by_number has answered on the store that one populate_database
\* call filled from the model
AnsweredAfterOnePopulate ==
    /\ ret.op = "get_article_by_number"
    /\ ~ret.raised
    /\ pc = "idle" /\ run.calls = 1 /\ run.failed = 0

\* C3 as stated: for every article of the model, get_article_by_number of its
\* number returns that article's own tree (no node lost, added or moved).
C3_EveryArticleRoundTrips ==
    AnsweredAfterOnePopulate =>
        \A i \in ArticlesNumbered(ret.arg) :
            /\ ret.value # <<>>
            /\ TreeOf(ret.value[1]) = TreeOf(args.articles[i])

\* C3 as the code has it: get_article_by_number(N) returns the tree of the
\* first article of the model that carries the number N, with no node lost,
\* added or attached to another parent.
C3_FirstArticleRoundTrips ==
    AnsweredAfterOnePopulate =>
        \A i \in ArticlesNumbered(ret.arg) :
            (\A j \in ArticlesNumbered(ret.arg) : i <= j) =>
                /\ ret.value # <<>>
                /\ TreeOf(ret.value[1]) = TreeOf(args.articles[i])

\* the second article of a model is returned with a subparagraph under its paragraph
C3_Witness ==
    /\ AnsweredAfterOnePopulate
    /\ Len(args.articles) = 2
    /\ args.articles[1].number # ret.arg
    /\ args.articles[2].number = ret.arg
    /\ ret.value # <<>>
    /\ \E i \in 1..Len(ret.value[1].paragraphs) : ret.value[1].paragraphs[i].subparagraphs # <<>>

\* the paragraph tree of a get_article_by_number result without the row ids
PlainSubsubparagraphs(seq) ==
    [i \in 1..Len(seq) |-> [number |-> seq[i].number, text |-> seq[i].text]]

PlainSubparagraphs(seq) ==
    [i \in 1..Len(seq) |->
        [letter |-> seq[i].letter, text |-> seq[i].text,
         subsubparagraphs |-> PlainSubsubparagraphs(seq[i].subsubparagraphs)]]

PlainParagraphs(seq) ==
    [i \in 1..Len(seq) |->
        [number |-> seq[i].number, text |-> seq[i].text,
         subparagraphs |-> PlainSubparagraphs(seq[i].subparagraphs)]]

\* export_to_json has answered
Exported == ret.op = "export_to_json" /\ ~ret.raised /\ ret.value # <<>>

\* sub-tree i of the export has the paragraphs, subparagraphs and
\* sub-subparagraphs (texts and order) of get_article_by_number of its number
SameAsLookup(i) ==
    LET e == ret.value[1].articles[i]
        g == get_article_by_number(View, e.number)
    IN /\ g # <<>>
       /\ e.paragraphs = PlainParagraphs(g[1].paragraphs)

\* C4 as stated: every sub-tree that export_to_json emits for an article number
\* N equals the tree of get_article_by_number(N).
C4_EverySubtreeMatches ==
    Exported => \A i \in 1..Len(ret.value[1].articles) : SameAsLookup(i)

\* C4 as the code has it: the first sub-tree that export_to_json emits for an
\* article number N has the same paragraphs, subparagraphs and
\* sub-subparagraphs, texts and order, as get_article_by_number(N).
C4_FirstSubtreeMatches ==
    Exported =>
        \A i \in 1..Len(ret.value[1].articles) :
            (\A j \in 1..(i - 1) :
                ret.value[1].articles[j].number # ret.value[1].articles[i].number)
            => SameAsLookup(i)

\* an exported article whose paragraph "10" was inserted after its paragraph "2"
C4_Witness ==
    /\ Exported
    /\ \E i \in 1..Len(ret.value[1].articles) :
          LET ps == ret.value[1].articles[i].paragraphs
          IN /\ Len(ps) = 2
             /\ ps[1].number = <<1, 0>> /\ ps[2].number = <<2>>
             /\ ps[1].text[1] > ps[2].text[1]

\* seq is in the order of the byte-wise comparison of the column col
InTextOrder(seq, col) ==
    \A i, j \in 1..Len(seq) : i < j => ~LexLess(seq[j][col], seq[i][col])

\* C5: in every tree get_article_by_number returns, the paragraphs are in the
\* order of their number compared as text ("10" before "2"), the subparagraphs
\* of each paragraph in the order of their letter, the sub-subparagraphs of each
\* subparagraph in the order of their roman numeral compared as text, whatever
\* the insertion order was.
C5_TextOrder ==
    (ret.op = "get_article_by_number" /\ ~ret.raised /\ ret.value # <<>>) =>
        LET ps == ret.value[1].paragraphs
        IN /\ InTextOrder(ps, "number")
           /\ \A i \in 1..Len(ps) :
                 /\ InTextOrder(ps[i].subparagraphs, "letter")
                 /\ \A k \in 1..Len(ps[i].subparagraphs) :
                       InTextOrder(ps[i].subparagraphs[k].subsubparagraphs, "number")

\* paragraph "2" was inserted before paragraph "10", and "10" is returned first
C5_Witness ==
    /\ ret.op = "get_article_by_number" /\ ~ret.raised /\ ret.value # <<>>
    /\ LET ps == ret.value[1].paragraphs
       IN /\ Len(ps) = 2
          /\ ps[1].number = <<1, 0>> /\ ps[2].number = <<2>>
          /\ ps[1].id > ps[2].id

(***************************************************************************)
(* Claims checked under StoreSpec                                          *)
(***************************************************************************)
\* the columns that hold row ids
IdColumns ==
    {"id", "chapter_id", "section_id", "article_id", "paragraph_id", "subparagraph_id",
     "from_article_id", "to_article_id"}

\* a row without its ids
Content(row) == [f \in DOMAIN row \ IdColumns |-> row[f]]

\* the nodes of the article list, by depth
NodesAt(articles, field) ==
    UNION {{<<i, j>> : j \in 1..Len(articles[i][field])} : i \in 1..Len(articles)}

\* the rows one populate_database call produces from the model, per table
RowsOfModel ==
    [chapters |-> Len(self.chapters),
     sections |-> Len(self.sections),
     recitals |-> Len(args.recitals),
     articles |-> Len(args.articles),
     paragraphs |-> Cardinality(NodesAt(args.articles, "paragraphs")),
     requirements |-> Cardinality(NodesAt(args.articles, "requirements")),
     definitions |-> Len(self.definitions),
     time_requirements |-> Len(self.time_requirements),
     key_actors |-> Cardinality(UNION {{<<t, i>> : i \in 1..Len(args.actors[t])} :
                                          t \in ActorTypeSet}),
     privacy_policy_sections |-> NumPolicySections]

\* C6: populate_database called k times with the same model on the same store
\* succeeds every time; each table grows by the same amount on every call, the
\* amount the model produces, and holds k copies of every row (ids aside).
C6_CopiesPerCall ==
    /\ run.failed = 0
    /\ (pc = "idle" /\ run.calls >= 1) =>
          /\ run.last = "committed" /\ db = tx
          /\ \A t \in DOMAIN RowsOfModel : Len(tx[t]) - Len(run.before[t]) = RowsOfModel[t]
          /\ \A t \in TableNames :
                LET grown == Len(tx[t]) - Len(run.before[t])
                IN /\ Len(tx[t]) = run.calls * grown
                   /\ \A i \in 1..grown, c \in 1..(run.calls - 1) :
                         Content(tx[t][i]) = Content(tx[t][i + c * grown])

\* two calls have left two copies of a chapter, an article and a key-actor mention
C6_Witness ==
    /\ pc = "idle" /\ run.calls = 2
    /\ Len(tx.chapters) = 2 /\ Len(tx.articles) = 2 /\ Len(tx.key_actors) = 2
    /\ Len(tx.privacy_policy_sections) = 2 * NumPolicySections

\* get_requirements_for_role has answered
RoleAnswered == ret.op = "get_requirements_for_role" /\ ~ret.raised

\* the requirement rows whose article has a key-actor mention of the role and
\* whose text, seen through Seen, contains the role name with blanks for
\* underscores
RowsForRole(st, role, Seen(_)) ==
    {i \in 1..Len(st.requirements) :
        /\ \E k \in 1..Len(st.key_actors) :
              /\ st.key_actors[k].actor_type = role
              /\ st.key_actors[k].article_id = st.requirements[i].article_id
        /\ Contains(Seen(st.requirements[i].text), ReplaceUnderscores(role))}

\* the result of get_requirements_for_role is exactly the rows in ids
ReturnsRows(st, ids) ==
    /\ Len(ret.value) = Cardinality(ids)
    /\ {[article |-> x.article, text |-> x.text] : x \in Range(ret.value)}
         = {[article |-> st.articles[st.requirements[i].article_id].number,
             text |-> st.requirements[i].text] : i \in ids}

\* C10 as stated: the requirements returned are exactly those of an article
\* with a key-actor mention of the role whose literal text contains the role
\* name with underscores replaced by spaces.
C10_LiteralText ==
    RoleAnswered => ReturnsRows(View, RowsForRole(View, ret.arg, LAMBDA text : text))

\* C10 as the code has it: the requirements returned are exactly those of an
\* article with a key-actor mention of the role whose text, lower-cased,
\* contains the role name with underscores replaced by spaces.
C10_LowerCasedText ==
    RoleAnswered => ReturnsRows(View, RowsForRole(View, ret.arg, Lower))

\* a requirement that names the role with a capital letter is returned
C10_Witness ==
    /\ RoleAnswered
    /\ ret.arg = <<"controller">>
    /\ \E i \in 1..Len(ret.value) : ret.value[i].text = CapitalSentence

(***************************************************************************)
(* Claims checked under Spec: reads                                        *)
(***************************************************************************)
\* a read over a key has answered
KeyedRead == ret.op \in {"get_article_by_number", "get_requirements_for_role"}

\* the key of the answered read is not in the store
UnknownKey ==
    \/ ret.op = "get_article_by_number" /\ ~HasRow(View, "articles", "number", ret.arg)
    \/ ret.op = "get_requirements_for_role"
         /\ ~HasRow(View, "key_actors", "actor_type", ret.arg)

\* C9 as stated: in every state in which a read can be issued, a read over an
\* unknown key does not raise and returns the not-found value / the empty list.
C9_NeverRaises ==
    (KeyedRead /\ UnknownKey) => (~ret.raised /\ ret.value = <<>>)

\* C9 as the code has it: on a parser whose connection is open on a store with
\* the schema, a read over an unknown key does not raise;
\* get_article_by_number returns the not-found value and
\* get_requirements_for_role the empty list.
C9_NotFoundWithSchema ==
    (KeyedRead /\ UnknownKey /\ View.schema /\ ~self.closed) =>
        (~ret.raised /\ ret.value = <<>>)

\* an unknown role is asked for on a store that has articles and key-actor mentions
C9_Witness ==
    /\ ret.op = "get_requirements_for_role" /\ ret.arg = <<"auditor">>
    /\ ~ret.raised /\ ret.value = <<>>
    /\ Len(View.articles) > 0 /\ Len(View.key_actors) > 0

(***************************************************************************)
(* Claims checked under ReadersSpec                                        *)
(***************************************************************************)
\* the read of thread r has returned what it returns when it runs alone
SoloResult(r) ==
    /\ ~rd.th[r].raised
    /\ rd.th[r].value = Answer([op |-> rd.th[r].op, arg |-> rd.th[r].arg])

\* C7 as stated: under every interleaving, each reader's query returns the
\* result it returns when it runs alone.
C7_AnyReaders ==
    \A r \in Readers : rd.th[r].pc = "done" => SoloResult(r)

\* C7 as the code has it: readers that each read through a parser of their
\* own return, under every interleaving, the result the query returns alone.
C7_ReadersWithOwnParser ==
    \A r \in Readers :
        (rd.th[r].pc = "done" /\ rd.th[r].parser = OwnParser(r)) => SoloResult(r)

\* both readers have returned from different queries on parsers of their own
C7_Witness ==
    /\ \A r \in Readers : rd.th[r].pc = "done" /\ rd.th[r].parser = OwnParser(r)
    /\ rd.th[1].op = "get_article_by_number" /\ rd.th[1].value # <<>>
    /\ rd.th[2].op = "get_requirements_for_role" /\ rd.th[2].value # <<>>

(***************************************************************************)
(* Claims checked under SearchSpec                                         *)
(***************************************************************************)
\* p is the offset of the first occurrence of the keyword in the text, letter
\* case aside
FirstOccurrence(text, keyword, p) ==
    /\ p \in 0..(Len(text) - Len(keyword))
    /\ SubSeq(LowerCodes(text), p + 1, p + Len(keyword)) = LowerCodes(keyword)
    /\ \A q \in 0..(p - 1) :
          SubSeq(LowerCodes(text), q + 1, q + Len(keyword)) # LowerCodes(keyword)

\* the window of the text from max(0, p - 50) to min(len, p + len(keyword) + 50),
\* with the ellipsis before exactly when it does not start at offset 0 and the
\* ellipsis after exactly when it does not reach the end
WindowAround(text, keyword, p) ==
    LET from == IF p - SnippetRadius > 0 THEN p - SnippetRadius ELSE 0
        upto == IF p + Len(keyword) + SnippetRadius < Len(text)
                THEN p + Len(keyword) + SnippetRadius ELSE Len(text)
    IN [leading |-> from # 0, text |-> SubSeq(text, from + 1, upto),
        trailing |-> upto # Len(text)]

\* the texts of the stored paragraphs numbered number of the articles numbered article
ParagraphTexts(st, article, number) ==
    {st.paragraphs[i].text : i \in {k \in 1..Len(st.paragraphs) :
        /\ st.paragraphs[k].number = number
        /\ st.articles[st.paragraphs[k].article_id].number = article}}

\* C11: for every paragraph that search_by_keyword reports as a match, the
\* snippet is the window around the offset p of the first occurrence of the
\* keyword in the paragraph text, from max(0, p-50) to min(len, p+len(keyword)+50),
\* with a leading ellipsis exactly when the window does not start at offset 0
\* and a trailing ellipsis exactly when it does not reach the end of the text.
C11_SnippetAroundOccurrence ==
    (ret.op = "search_by_keyword" /\ ~ret.raised) =>
        \A i \in 1..Len(ret.value) : \A j \in 1..Len(ret.value[i].matches) :
            \E text \in ParagraphTexts(View, ret.value[i].article,
                                       ret.value[i].matches[j].paragraph) :
                \E p \in 0..Len(text) :
                    /\ FirstOccurrence(text, ret.arg, p)
                    /\ ret.value[i].matches[j].snippet = WindowAround(text, ret.arg, p)

(***************************************************************************)
(* extract_requirements: the classifier of sentences.  A text is a string  *)
(* of characters.  The sentences of a text come from the language          *)
(* pipeline, which is not part of the repository: the texts here are one   *)
(* sentence each, and an empty text has no sentence.                       *)
(***************************************************************************)
UpperNames == <<"A", "B", "C", "D", "E", "F", "G", "H", "I", "J", "K", "L", "M", "N", "O", "P", "Q", "R", "S", "T", "U", "V", "W", "X", "Y", "Z">>
LowerNames == <<"a", "b", "c", "d", "e", "f", "g", "h", "i", "j", "k", "l", "m", "n", "o", "p", "q", "r", "s", "t", "u", "v", "w", "x", "y", "z">>

\* str.lower() of one character
LowerChar(c) ==
    IF \E k \in 1..Len(UpperNames) : UpperNames[k] = c
    THEN LowerNames[CHOOSE k \in 1..Len(UpperNames) : UpperNames[k] = c]
    ELSE c

\* str.lower()
LowerText(text) == [i \in 1..Len(text) |-> LowerChar(text[i])]

obligation_keywords ==
    {<<"s", "h", "a", "l", "l">>,
     <<"m", "u", "s", "t">>,
     <<"r", "e", "q", "u", "i", "r", "e", "d">>,
     <<"e", "n", "s", "u", "r", "e">>,
     <<"n", "e", "c", "e", "s", "s", "a", "r", "y">>,
     <<"o", "b", "l", "i", "g", "a", "t", "i", "o", "n">>,
     <<"r", "i", "g", "h", "t">>,
     <<"r", "e", "s", "p", "o", "n", "s", "i", "b", "i", "l", "i", "t", "y">>,
     <<"l", "i", "a", "b", "l", "e">>,
     <<"a", "c", "c", "o", "u", "n", "t", "a", "b", "l", "e">>,
     <<"d", "u", "t", "y">>,
     <<"c", "o", "m", "p", "l", "y">>}
right_keywords ==
    {<<"r", "i", "g", "h", "t", " ", "t", "o">>,
     <<"e", "n", "t", "i", "t", "l", "e", "d", " ", "t", "o">>,
     <<"f", "r", "e", "e", "d", "o", "m", " ", "o", "f">>,
     <<"l", "i", "b", "e", "r", "t", "y", " ", "t", "o">>}
time_keywords ==
    {<<"w", "i", "t", "h", "i", "n">>,
     <<"d", "a", "y", "s">>,
     <<"m", "o", "n", "t", "h", "s">>,
     <<"y", "e", "a", "r", "s">>,
     <<"p", "e", "r", "i", "o", "d">>,
     <<"d", "e", "l", "a", "y">>,
     <<"w", "i", "t", "h", "o", "u", "t", " ", "u", "n", "d", "u", "e", " ", "d", "e", "l", "a", "y">>,
     <<"i", "m", "m", "e", "d", "i", "a", "t", "e", "l", "y">>,
     <<"p", "r", "o", "m", "p", "t", "l", "y">>,
     <<"n", "o", " ", "l", "a", "t", "e", "r", " ", "t", "h", "a", "n">>}

\* any(keyword in sent_text.lower() for keyword in keywords)
AnyKeyword(sent_text, keywords) ==
    \E keyword \in keywords : Contains(LowerText(sent_text), keyword)

\* a faulty variant of IsRequirement: a time-bound sentence is kept as well
IsRequirementOrTimeBound(is_obligation, is_right, is_time_requirement) ==
    is_obligation \/ is_right \/ is_time_requirement

\* "if is_obligation or is_right:"
IsRequirement(is_obligation, is_right, is_time_requirement) ==
    is_obligation \/ is_right

\* what one text adds: the requirements and the time requirements of its
\* sentence.  subparagraph is <<>> for the text of a paragraph.
ClassifySentence(article_number, para_number, subparagraph, text) ==
    LET sent_text == Strip(text)
        is_obligation == AnyKeyword(sent_text, obligation_keywords)
        is_right == AnyKeyword(sent_text, right_keywords)
        is_time_requirement == AnyKeyword(sent_text, time_keywords)
        kept == sent_text # <<>>
                  /\ IsRequirement(is_obligation, is_right, is_time_requirement)
    IN [requirements |->
           IF kept
           THEN <<[paragraph |-> para_number, subparagraph |-> subparagraph,
                   text |-> sent_text, is_obligation |-> is_obligation,
                   is_right |-> is_right,
                   is_time_requirement |-> is_time_requirement]>>
           ELSE <<>>,
        time_requirements |->
           IF kept /\ is_time_requirement
           THEN <<[article |-> article_number, paragraph |-> para_number,
                   subparagraph |-> subparagraph, text |-> sent_text]>>
           ELSE <<>>]

\* "for subpara in para.get('subparagraphs', [])": the first n subparagraphs
RECURSIVE ClassifySubparagraphs(_, _, _)
ClassifySubparagraphs(article_number, para, n) ==
    IF n = 0 THEN [requirements |-> <<>>, time_requirements |-> <<>>]
    ELSE LET before == ClassifySubparagraphs(article_number, para, n - 1)
             here == ClassifySentence(article_number, para.number,
                                      para.subparagraphs[n].letter,
                                      para.subparagraphs[n].text)
         IN [requirements |-> before.requirements \o here.requirements,
             time_requirements |-> before.time_requirements \o here.time_requirements]

\* "for para in article['paragraphs']": the first n paragraphs
RECURSIVE ClassifyParagraphs(_, _)
ClassifyParagraphs(article, n) ==
    IF n = 0 THEN [requirements |-> <<>>, time_requirements |-> <<>>]
    ELSE LET before == ClassifyParagraphs(article, n - 1)
             para == article.paragraphs[n]
             here == ClassifySentence(article.number, para.number, <<>>, para.text)
             below == ClassifySubparagraphs(article.number, para, Len(para.subparagraphs))
         IN [requirements |->
                before.requirements \o here.requirements \o below.requirements,
             time_requirements |->
                before.time_requirements \o here.time_requirements
                    \o below.time_requirements]

\* sentences of the texts a caller hands to extract_requirements
TimeOnlySentence == <<"w", "i", "t", "h", "i", "n", " ", "t", "h", "i", "r", "t", "y", " ", "d", "a", "y", "s">>
DutySentence == <<"s", "h", "a", "l", "l", " ", "r", "e", "p", "l", "y", " ", "w", "i", "t", "h", "i", "n", " ", "t", "h", "i", "r", "t", "y", " ", "d", "a", "y", "s">>
RightSentence == <<"h", "a", "s", " ", "t", "h", "e", " ", "r", "i", "g", "h", "t", " ", "t", "o", " ", "o", "b", "j", "e", "c", "t">>
EntitledSentence == <<"E", "n", "t", "i", "t", "l", "e", "d", " ", "t", "o", " ", "a", " ", "c", "o", "p", "y">>
PlainSentence == <<"t", "h", "i", "s", " ", "i", "s", " ", "t", "e", "x", "t">>
SentenceTexts ==
    {TimeOnlySentence, DutySentence, RightSentence, EntitledSentence, PlainSentence}

\* the caller writes the article that it will hand to extract_requirements:
\* a paragraph, or a subparagraph of the last paragraph
WriteParagraph(text) ==
    /\ run.stage = "new" /\ ret = NoRet /\ run.nodes < MaxItems
    /\ args.text = <<>>
    /\ args' = [args EXCEPT !.articles =
                   IF @ = <<>>
                   THEN <<[number |-> <<"1">>, title |-> <<"T">>, content |-> text,
                           chapter |-> <<>>, section |-> <<>>,
                           paragraphs |-> <<[number |-> <<"1">>, text |-> text,
                                             subparagraphs |-> <<>>]>>,
                           requirements |-> <<>>, entities |-> <<>>]>>
                   ELSE [@ EXCEPT ![1].paragraphs =
                            Append(@, [number |-> <<DigitNames[Len(@) + 1]>>,
                                       text |-> text, subparagraphs |-> <<>>])]]
    /\ run' = [run EXCEPT !.nodes = @ + 1]
    /\ UNCHANGED <<self, db, tx, pc, loc, ret, rd, files>>

WriteSubparagraph(text) ==
    /\ run.stage = "new" /\ ret = NoRet /\ run.nodes < MaxItems
    /\ args.text = <<>> /\ args.articles # <<>>
    /\ args' = [args EXCEPT
                   !.articles[1].paragraphs[Len(args.articles[1].paragraphs)].subparagraphs =
                       Append(@, [letter |-> <<LetterNames[Len(@) + 1]>>, text |-> text,
                                  subsubparagraphs |-> <<>>])]
    /\ run' = [run EXCEPT !.nodes = @ + 1]
    /\ UNCHANGED <<self, db, tx, pc, loc, ret, rd, files>>

\* extract_requirements(article): article['requirements'] is set, the time
\* requirements are appended to self.time_requirements.  The entities come
\* from the language pipeline and are left out.
ExtractRequirements ==
    /\ run.stage = "new" /\ ret = NoRet
    /\ args.text = <<>> /\ args.articles # <<>>
    /\ LET article == args.articles[1]
           found == ClassifyParagraphs(article, Len(article.paragraphs))
       IN /\ args' = [args EXCEPT !.articles[1].requirements = found.requirements]
          /\ self' = [self EXCEPT !.time_requirements = @ \o found.time_requirements]
          /\ ret' = [op |-> "extract_requirements", arg |-> article.number,
                     raised |-> FALSE, value |-> <<>>]
    /\ UNCHANGED <<db, tx, pc, loc, run, rd, files>>

ClassifyNext ==
    \/ \E text \in SentenceTexts : WriteParagraph(text)
    \/ \E text \in SentenceTexts : WriteSubparagraph(text)
    \/ ExtractRequirements

ClassifySpec == Init /\ [][ClassifyNext]_vars

(***************************************************************************)
(* extract_cross_references on the contents of articles                    *)
(***************************************************************************)
\* article_ref_pattern "Article\s+(\d+)(?:\s*\(\s*(\d+)\s*\))?" tried at
\* position i: end is the position after the match, 0 when it does not match;
\* paragraph is <<>> for None
RefMatch(text, i) ==
    LET blank == i + Len(ArticleWord)
        digits == RunEnd(text, blank, WhiteChars)
        after == RunEnd(text, digits, DigitChars)
        open == RunEnd(text, after, WhiteChars)
        inner == RunEnd(text, open + 1, WhiteChars)
        innerAfter == RunEnd(text, inner, DigitChars)
        close == RunEnd(text, innerAfter, WhiteChars)
    IN IF ~LiteralAt(text, i, ArticleWord) \/ digits = blank \/ after = digits
       THEN [end |-> 0, article |-> <<>>, paragraph |-> <<>>]
       ELSE IF LiteralAt(text, open, <<"(">>) /\ innerAfter > inner
               /\ LiteralAt(text, close, <<")">>)
       THEN [end |-> close + 1, article |-> SubSeq(text, digits, after - 1),
             paragraph |-> SubSeq(text, inner, innerAfter - 1)]
       ELSE [end |-> after, article |-> SubSeq(text, digits, after - 1),
             paragraph |-> <<>>]

\* a faulty variant of NotSelfReference: every target is kept
AnyReference(referenced_article, article_num) == TRUE

\* "if referenced_article != article_num:"
NotSelfReference(referenced_article, article_num) == referenced_article # article_num

\* "for match in re.finditer(article_ref_pattern, content)" from position from
RECURSIVE ReferencesOfContent(_, _, _, _)
ReferencesOfContent(cross_references, article_num, content, from) ==
    LET starts == {i \in from..Len(content) : RefMatch(content, i).end # 0}
    IN IF starts = {} THEN cross_references
       ELSE LET match == RefMatch(content, SetMin(starts))
            IN ReferencesOfContent(
                  IF NotSelfReference(match.article, article_num)
                  THEN AddReference(cross_references, article_num,
                                    [article |-> match.article,
                                     paragraph |-> match.paragraph])
                  ELSE cross_references,
                  article_num, content, match.end)

\* extract_cross_references: "for article in articles", the first n articles
RECURSIVE extract_cross_references(_, _)
extract_cross_references(articles, n) ==
    IF n = 0 THEN <<>>
    ELSE ReferencesOfContent(extract_cross_references(articles, n - 1),
                             articles[n].number, articles[n].content, 1)

\* the articles a caller hands over: numbers, and what is written in them.
\* args.text keeps each marker written: the article it is in, its target
\* article and paragraph (<<>> for none; a word has no target).
SourceNumbers == <<<<"5">>, <<"6">>>>
HeaderTail == <<" ", "-", " ", "T">>
ReferencePieces ==
    {[chars |-> <<" ", "A", "r", "t", "i", "c", "l", "e", " ", "6">>, article |-> <<"6">>, paragraph |-> <<>>],
     [chars |-> <<" ", "A", "r", "t", "i", "c", "l", "e", " ", "6", "(", "1", ")">>, article |-> <<"6">>, paragraph |-> <<"1">>],
     [chars |-> <<" ", "A", "r", "t", "i", "c", "l", "e", " ", " ", "5", " ", "(", " ", "2", " ", ")">>, article |-> <<"5">>, paragraph |-> <<"2">>],
     [chars |-> <<" ", "A", "r", "t", "i", "c", "l", "e", " ", "1", "2">>, article |-> <<"1", "2">>, paragraph |-> <<>>],
     [chars |-> <<" ", "s", "e", "e">>, article |-> <<>>, paragraph |-> <<>>]}

\* the next article begins: its header "Article N - T" opens its content
WriteHeader ==
    /\ run.stage = "new" /\ ret = NoRet
    /\ Len(args.text) < MaxPieces /\ Len(args.articles) < Len(SourceNumbers)
    /\ args.articles # <<>> => args.articles[1].number = SourceNumbers[1]
    /\ LET number == SourceNumbers[Len(args.articles) + 1]
       IN args' = [args EXCEPT
                    !.articles = Append(@, [number |-> number, title |-> <<"T">>,
                                            content |-> ArticleWord \o <<" ">> \o number
                                                          \o HeaderTail,
                                            chapter |-> <<>>, section |-> <<>>,
                                            paragraphs |-> <<>>, requirements |-> <<>>,
                                            entities |-> <<>>]),
                    !.text = Append(@, [source |-> number, article |-> number,
                                        paragraph |-> <<>>])]
    /\ UNCHANGED <<self, db, tx, pc, loc, run, ret, rd, files>>

\* a marker or a word is written into the content of the last article
WriteReference(piece) ==
    /\ run.stage = "new" /\ ret = NoRet
    /\ Len(args.text) < MaxPieces
    /\ args.articles # <<>> /\ args.articles[1].number = SourceNumbers[1]
    /\ args.text # <<>>
    /\ args' = [args EXCEPT
                  !.articles[Len(args.articles)].content = @ \o piece.chars,
                  !.text = Append(@, [source |-> args.articles[Len(args.articles)].number,
                                      article |-> piece.article,
                                      paragraph |-> piece.paragraph])]
    /\ UNCHANGED <<self, db, tx, pc, loc, run, ret, rd, files>>

\* extract_cross_references(articles): self.cross_references is set
ExtractCrossReferences ==
    /\ run.stage = "new" /\ ret = NoRet
    /\ args.articles # <<>> /\ args.articles[1].number = SourceNumbers[1]
    /\ args.text # <<>>
    /\ self' = [self EXCEPT !.cross_references =
                   extract_cross_references(args.articles, Len(args.articles))]
    /\ ret' = [op |-> "extract_cross_references", arg |-> <<>>, raised |-> FALSE,
               value |-> <<>>]
    /\ UNCHANGED <<args, db, tx, pc, loc, run, rd, files>>

ReferenceNext ==
    \/ WriteHeader
    \/ \E piece \in ReferencePieces : WriteReference(piece)
    \/ ExtractCrossReferences

ReferenceSpec == Init /\ [][ReferenceNext]_vars

(***************************************************************************)
(* extract_definitions on articles with their paragraphs                   *)
(***************************************************************************)
QuoteChars == {"'", "\""}
DefinitionWord == <<"d", "e", "f", "i", "n", "i", "t", "i", "o", "n">>
\* the verbs of definition_patterns, in the order of the list
DefinitionVerbs == <<<<"m", "e", "a", "n", "s">>, <<"r", "e", "f", "e", "r", "s", " ", "t", "o">>, <<"s", "h", "a", "l", "l", " ", "m", "e", "a", "n">>>>

\* a definition pattern "['\"]([^'\"]+)['\"] <verb> (.+)" with re.IGNORECASE
\* tried at position i: end is the position after the match, 0 when it does
\* not match.  The definition group runs to the end of the line.
DefinitionMatch(text, i, verb) ==
    LET close == FirstOf(text, i + 1, QuoteChars)
        group == close + 1 + Len(verb) + 2
    IN IF i <= Len(text) /\ text[i] \in QuoteChars
          /\ close > i + 1 /\ close <= Len(text)
          /\ LiteralAt(LowerText(text), close + 1, <<" ">> \o verb \o <<" ">>)
          /\ group <= Len(text) /\ text[group] # "\n"
       THEN [end |-> FirstOf(text, group, {"\n"}),
             term |-> Strip(SubSeq(text, i + 1, close - 1)),
             definition |-> Strip(SubSeq(text, group, FirstOf(text, group, {"\n"}) - 1))]
       ELSE [end |-> 0, term |-> <<>>, definition |-> <<>>]

\* "for match in re.finditer(pattern, text, re.IGNORECASE)" from position from.
\* place holds the article, paragraph and subparagraph of the text.
RECURSIVE DefinitionsOfPattern(_, _, _, _, _)
DefinitionsOfPattern(definitions, text, verb, from, place) ==
    LET starts == {i \in from..Len(text) : DefinitionMatch(text, i, verb).end # 0}
    IN IF starts = {} THEN definitions
       ELSE LET match == DefinitionMatch(text, SetMin(starts), verb)
            IN DefinitionsOfPattern(
                  SetDefinition(definitions,
                                [term |-> match.term, definition |-> match.definition,
                                 article |-> place.article, paragraph |-> place.paragraph,
                                 subparagraph |-> place.subparagraph]),
                  text, verb, match.end, place)

\* "for pattern in definition_patterns": the first n patterns
RECURSIVE DefinitionsOfText(_, _, _, _)
DefinitionsOfText(definitions, text, n, place) ==
    IF n = 0 THEN definitions
    ELSE DefinitionsOfPattern(DefinitionsOfText(definitions, text, n - 1, place),
                              text, DefinitionVerbs[n], 1, place)

\* "for subpara in paragraph.get('subparagraphs', [])": the first n of them
RECURSIVE DefinitionsOfSubparagraphs(_, _, _, _)
DefinitionsOfSubparagraphs(definitions, article, paragraph, n) ==
    IF n = 0 THEN definitions
    ELSE DefinitionsOfText(
            DefinitionsOfSubparagraphs(definitions, article, paragraph, n - 1),
            paragraph.subparagraphs[n].text, Len(DefinitionVerbs),
            [article |-> article.number, paragraph |-> paragraph.number,
             subparagraph |-> paragraph.subparagraphs[n].letter])

\* "for paragraph in article.get('paragraphs', [])": the first n of them
RECURSIVE DefinitionsOfParagraphs(_, _, _)
DefinitionsOfParagraphs(definitions, article, n) ==
    IF n = 0 THEN definitions
    ELSE LET paragraph == article.paragraphs[n]
         IN DefinitionsOfSubparagraphs(
               DefinitionsOfText(DefinitionsOfParagraphs(definitions, article, n - 1),
                                 paragraph.text, Len(DefinitionVerbs),
                                 [article |-> article.number,
                                  paragraph |-> paragraph.number, subparagraph |-> <<>>]),
               article, paragraph, Len(paragraph.subparagraphs))

\* a faulty variant of IsDefinitionArticle: every article is searched
IsAnyArticle(title, number) == TRUE

\* "definition" in a['title'].lower() or a['number'] == '4'
IsDefinitionArticle(title, number) ==
    Contains(LowerText(title), DefinitionWord) \/ number = <<"4">>

\* extract_definitions: "for article in definition_articles", over the first n
\* articles
RECURSIVE extract_definitions(_, _)
extract_definitions(articles, n) ==
    IF n = 0 THEN <<>>
    ELSE IF IsDefinitionArticle(articles[n].title, articles[n].number)
    THEN DefinitionsOfParagraphs(extract_definitions(articles, n - 1), articles[n],
                                 Len(articles[n].paragraphs))
    ELSE extract_definitions(articles, n - 1)

MaxTexts == 4        \* articles, paragraphs and subparagraphs handed over

\* the articles a caller hands over.  args.text keeps, for each text written,
\* where it is and the term and definition of the phrase in it (<<>> when it
\* holds no phrase).
DefinitionsTitle == <<"D", "e", "f", "i", "n", "i", "t", "i", "o", "n", "s">>
ScopeTitle == <<"S", "c", "o", "p", "e">>
GlossaryNumbers == {<<"4">>, <<"5">>}
DefinitionTexts ==
    {[chars |-> <<"'", "p", "d", "'", " ", "m", "e", "a", "n", "s", " ", "x">>, term |-> <<"p", "d">>, definition |-> <<"x">>],
     [chars |-> <<"\"", "p", "d", "\"", " ", "R", "e", "f", "e", "r", "s", " ", "T", "o", " ", "y">>, term |-> <<"p", "d">>, definition |-> <<"y">>],
     [chars |-> <<"'", " ", "c", " ", "'", " ", "s", "h", "a", "l", "l", " ", "m", "e", "a", "n", " ", "z">>, term |-> <<"c">>, definition |-> <<"z">>],
     [chars |-> <<"n", "o", " ", "t", "e", "r", "m">>, term |-> <<>>, definition |-> <<>>]}

WriteArticle(number, title) ==
    /\ run.stage = "new" /\ ret = NoRet /\ run.nodes < MaxTexts
    /\ args' = [args EXCEPT
                  !.articles = Append(@, [number |-> number, title |-> title,
                                          content |-> <<>>, chapter |-> <<>>,
                                          section |-> <<>>, paragraphs |-> <<>>,
                                          requirements |-> <<>>, entities |-> <<>>])]
    /\ run' = [run EXCEPT !.nodes = @ + 1]
    /\ UNCHANGED <<self, db, tx, pc, loc, ret, rd, files>>

\* a paragraph of the last article
WriteDefinitionParagraph(piece) ==
    /\ run.stage = "new" /\ ret = NoRet /\ run.nodes < MaxTexts
    /\ args.articles # <<>>
    /\ LET article == args.articles[Len(args.articles)]
           number == <<DigitNames[Len(article.paragraphs) + 1]>>
       IN args' = [args EXCEPT
                    !.articles[Len(args.articles)].paragraphs =
                        Append(@, [number |-> number, text |-> piece.chars,
                                   subparagraphs |-> <<>>]),
                    !.text = Append(@, [article |-> article.number, title |-> article.title,
                                        paragraph |-> number, subparagraph |-> <<>>,
                                        term |-> piece.term,
                                        definition |-> piece.definition])]
    /\ run' = [run EXCEPT !.nodes = @ + 1]
    /\ UNCHANGED <<self, db, tx, pc, loc, ret, rd, files>>

\* a subparagraph of the last paragraph of the last article
WriteDefinitionSubparagraph(piece) ==
    /\ run.stage = "new" /\ ret = NoRet /\ run.nodes < MaxTexts
    /\ args.articles # <<>>
    /\ args.articles[Len(args.articles)].paragraphs # <<>>
    /\ LET article == args.articles[Len(args.articles)]
           paragraph == article.paragraphs[Len(article.paragraphs)]
           letter == <<LetterNames[Len(paragraph.subparagraphs) + 1]>>
       IN args' = [args EXCEPT
                    !.articles[Len(args.articles)].paragraphs[Len(article.paragraphs)]
                        .subparagraphs =
                        Append(@, [letter |-> letter, text |-> piece.chars,
                                   subsubparagraphs |-> <<>>]),
                    !.text = Append(@, [article |-> article.number, title |-> article.title,
                                        paragraph |-> paragraph.number,
                                        subparagraph |-> letter, term |-> piece.term,
                                        definition |-> piece.definition])]
    /\ run' = [run EXCEPT !.nodes = @ + 1]
    /\ UNCHANGED <<self, db, tx, pc, loc, ret, rd, files>>

\* extract_definitions(articles): self.definitions is set
ExtractDefinitions ==
    /\ run.stage = "new" /\ ret = NoRet
    /\ args.articles # <<>>
    /\ self' = [self EXCEPT !.definitions =
                   extract_definitions(args.articles, Len(args.articles))]
    /\ ret' = [op |-> "extract_definitions", arg |-> <<>>, raised |-> FALSE,
               value |-> <<>>]
    /\ UNCHANGED <<args, db, tx, pc, loc, run, rd, files>>

DefinitionNext ==
    \/ \E number \in GlossaryNumbers, title \in {DefinitionsTitle, ScopeTitle} :
          WriteArticle(number, title)
    \/ \E piece \in DefinitionTexts : WriteDefinitionParagraph(piece)
    \/ \E piece \in DefinitionTexts : WriteDefinitionSubparagraph(piece)
    \/ ExtractDefinitions

DefinitionSpec == Init /\ [][DefinitionNext]_vars

(***************************************************************************)
(* Construction: main() builds a parser for a path and runs parse_and_load *)
(***************************************************************************)
\* the paths a caller passes ("gdpr.pdf" is the one main passes), and the
\* paths at which the document may be
Paths == {PdfPath, "gdpr.pdf", "copy.pdf"}

\* no parser is built yet; any of the paths may hold a file
ConstructInit ==
    /\ self = NoCaches @@ [conn |-> FALSE, closed |-> FALSE]
    /\ args = [recitals |-> <<>>, articles |-> <<>>,
               actors |-> [t \in ActorTypeSet |-> <<>>], text |-> <<>>]
    /\ db = NoFile
    /\ tx = NoFile
    /\ pc = "idle"
    /\ loc = NoMaps
    /\ run = [mode |-> "none", stage |-> "unbuilt", result |-> "none", calls |-> 0,
              failed |-> 0, last |-> "none", nodes |-> 0, before |-> NoFile,
              extracted |-> NoCaches]
    /\ ret = NoRet
    /\ rd = NoReaders
    /\ files \in SUBSET Paths

\* GDPRParser(pdf_path): self.pdf_path is PdfPath whatever pdf_path is;
\* FileNotFoundError when no file is at self.pdf_path, the caches otherwise
Construct(pdf_path) ==
    /\ run.stage = "unbuilt"
    /\ IF PdfPath \in files
       THEN /\ run' = [run EXCEPT !.stage = "new"]
            /\ ret' = [op |-> "__init__", arg |-> pdf_path, raised |-> FALSE,
                       value |-> <<>>]
       ELSE /\ run' = [run EXCEPT !.stage = "returned", !.result = "thrown"]
            /\ ret' = [op |-> "__init__", arg |-> pdf_path, raised |-> TRUE,
                       value |-> <<>>]
    /\ self' = NoCaches @@ [conn |-> FALSE, closed |-> FALSE]
    /\ UNCHANGED <<args, db, tx, pc, loc, rd, files>>

ConstructNext ==
    \/ \E pdf_path \in Paths : Construct(pdf_path)
    \/ ParseAndLoadStart
    \/ ParseStageRaise
    \/ ExtractArticle(<<1>>)
    \/ ExtractParagraph(<<2>>)
    \/ ParseInitDatabase
    \/ PopulateSteps

ConstructSpec == ConstructInit /\ [][ConstructNext]_vars

(***************************************************************************)
(* preprocess_text and extract_articles_with_structure on a text           *)
(***************************************************************************)
\* the characters U+2014 and U+2013
EmDash == "{em dash}"
EnDash == "{en dash}"

\* re.sub(r'\s+', ' ', text)
RECURSIVE CollapseWhite(_, _)
CollapseWhite(text, from) ==
    IF from > Len(text) THEN <<>>
    ELSE IF text[from] \in WhiteChars
    THEN <<" ">> \o CollapseWhite(text, RunEnd(text, from, WhiteChars))
    ELSE <<text[from]>> \o CollapseWhite(text, from + 1)

\* text.replace(old, new) for a string old of one or two characters
RECURSIVE Replace(_, _, _, _)
Replace(text, from, old, new) ==
    IF from > Len(text) THEN <<>>
    ELSE IF LiteralAt(text, from, old)
    THEN new \o Replace(text, from + Len(old), old, new)
    ELSE <<text[from]>> \o Replace(text, from + 1, old, new)

\* r'Article\s+(\d+)\s*[dashes]\s*' tried at position i: the position after
\* the match, 0 when it does not match
LooseHeaderEnd(text, i) ==
    LET blank == i + Len(ArticleWord)
        digits == RunEnd(text, blank, WhiteChars)
        after == RunEnd(text, digits, DigitChars)
        dash == RunEnd(text, after, WhiteChars)
    IN IF LiteralAt(text, i, ArticleWord) /\ digits > blank /\ after > digits
          /\ dash <= Len(text) /\ text[dash] \in {EmDash, EnDash, "-"}
       THEN RunEnd(text, dash + 1, WhiteChars)
       ELSE 0

\* re.sub(r'Article\s+(\d+)\s*[dashes]\s*', r'Article \1 - ', text)
RECURSIVE NormalizeHeaders(_, _)
NormalizeHeaders(text, from) ==
    IF from > Len(text) THEN <<>>
    ELSE IF LooseHeaderEnd(text, from) # 0
    THEN LET digits == RunEnd(text, from + Len(ArticleWord), WhiteChars)
         IN ArticleWord \o <<" ">>
               \o SubSeq(text, digits, RunEnd(text, digits, DigitChars) - 1)
               \o <<" ", "-", " ">>
               \o NormalizeHeaders(text, LooseHeaderEnd(text, from))
    ELSE <<text[from]>> \o NormalizeHeaders(text, from + 1)

preprocess_text(text) ==
    LET spaced == CollapseWhite(text, 1)
        bars == Replace(spaced, 1, <<"|">>, <<"I">>)
        ells == Replace(bars, 1, <<"l", "1">>, <<"h">>)
        ems == Replace(ells, 1, <<EmDash>>, <<"-">>)
        ens == Replace(ems, 1, <<EnDash>>, <<"-">>)
    IN NormalizeHeaders(ens, 1)

\* where the title group "([^\n]+)" starts after a separator "\s*", "\s+" or
\* "[:\s]+" that starts at from, is of the characters of class and takes at
\* least `least` characters: the separator is as long as it can be while one
\* character other than a newline is left for the title; 0 when none is
TitleStart(text, from, class, least) ==
    LET starts == {t \in (from + least)..RunEnd(text, from, class) :
                      t <= Len(text) /\ text[t] # "\n"}
    IN IF starts = {} THEN 0 ELSE SetMax(starts)

ChapterWord == <<"C", "H", "A", "P", "T", "E", "R">>
SectionWord == <<"S", "e", "c", "t", "i", "o", "n">>
RomanCapitals == {"I", "V", "X"}

\* chapter_pattern "CHAPTER\s+([IVX]+)\s+([^\n]+)" tried at position i; end
\* is the position after the match, 0 when it does not match
ChapterMatch(text, i) ==
    LET blank == i + Len(ChapterWord)
        number == RunEnd(text, blank, WhiteChars)
        after == RunEnd(text, number, RomanCapitals)
        title == TitleStart(text, after, WhiteChars, 1)
    IN IF LiteralAt(text, i, ChapterWord) /\ number > blank /\ after > number
          /\ title # 0
       THEN [end |-> FirstOf(text, title, {"\n"}),
             number |-> SubSeq(text, number, after - 1),
             title |-> Strip(SubSeq(text, title, FirstOf(text, title, {"\n"}) - 1))]
       ELSE [end |-> 0, number |-> <<>>, title |-> <<>>]

\* section_pattern "Section\s+(\d+)[:\s]+([^\n]+)" tried at position i
SectionMatch(text, i) ==
    LET blank == i + Len(SectionWord)
        number == RunEnd(text, blank, WhiteChars)
        after == RunEnd(text, number, DigitChars)
        title == TitleStart(text, after, WhiteChars \cup {":"}, 1)
    IN IF LiteralAt(text, i, SectionWord) /\ number > blank /\ after > number
          /\ title # 0
       THEN [end |-> FirstOf(text, title, {"\n"}),
             number |-> SubSeq(text, number, after - 1),
             title |-> Strip(SubSeq(text, title, FirstOf(text, title, {"\n"}) - 1))]
       ELSE [end |-> 0, number |-> <<>>, title |-> <<>>]

\* article_pattern "Article\s+(\d+)\s*-\s*([^\n]+)" tried at position i
ArticleMatch(text, i) ==
    LET number == RunEnd(text, i + Len(ArticleWord), WhiteChars)
        after == RunEnd(text, number, DigitChars)
        dash == RunEnd(text, after, WhiteChars)
        end == HeaderMatchEnd(text, i)
    IN IF end # 0
       THEN [end |-> end, number |-> SubSeq(text, number, after - 1),
             title |-> Strip(SubSeq(text, TitleStart(text, dash + 1, WhiteChars, 0),
                                    end - 1))]
       ELSE [end |-> 0, number |-> <<>>, title |-> <<>>]

\* the match of the pattern of kind at position i
MatchOf(kind, text, i) ==
    CASE kind = "chapter" -> ChapterMatch(text, i)
      [] kind = "section" -> SectionMatch(text, i)
      [] kind = "article" -> ArticleMatch(text, i)

\* "for match in re.finditer(pattern, text)" from position from: number, title
\* and match.start() of each match (start counts from 0)
RECURSIVE Positions(_, _, _)
Positions(kind, text, from) ==
    LET starts == {i \in from..Len(text) : MatchOf(kind, text, i).end # 0}
    IN IF starts = {} THEN <<>>
       ELSE LET match == MatchOf(kind, text, SetMin(starts))
            IN <<[number |-> match.number, title |-> match.title,
                  start |-> SetMin(starts) - 1]>>
               \o Positions(kind, text, match.end)

\* a faulty variant of WithEnds: every interval ends at the end of the text
EndsAtTextEnd(positions, text) ==
    [k \in 1..Len(positions) |->
        [number |-> positions[k].number, title |-> positions[k].title,
         start |-> positions[k].start, end |-> Len(text)]]

\* the end positions: the start of the next one, len(text) for the last
WithEnds(positions, text) ==
    [k \in 1..Len(positions) |->
        [number |-> positions[k].number, title |-> positions[k].title,
         start |-> positions[k].start,
         end |-> IF k < Len(positions) THEN positions[k + 1].start ELSE Len(text)]]

\* a faulty variant of Inside: the end of the interval is not looked at
InsideOpenEnded(prev_start, interval) == prev_start >= interval.start

\* "prev_start >= chapter['start'] and (chapter['end'] is None or
\* prev_start < chapter['end'])"
Inside(prev_start, interval) ==
    prev_start >= interval.start /\ prev_start < interval.end

\* "for chapter in chapter_positions: if ...: article_chapter = {...}; break"
TagOf(positions, prev_start) ==
    LET holding == {k \in 1..Len(positions) : Inside(prev_start, positions[k])}
    IN IF holding = {} THEN <<>>
       ELSE <<[number |-> positions[SetMin(holding)].number,
               title |-> positions[SetMin(holding)].title]>>

\* chapter_positions and section_positions, the interval lists that
\* extract_articles_with_structure builds from the text before it looks for
\* the headers
Intervals(text) ==
    [chapter_positions |-> WithEnds(Positions("chapter", text, 1), text),
     section_positions |-> WithEnds(Positions("section", text, 1), text)]

extract_articles_with_structure(text) ==
    LET chapter_positions == Intervals(text).chapter_positions
        section_positions == Intervals(text).section_positions
        headers == WithEnds(Positions("article", text, 1), text)
    IN [k \in 1..Len(headers) |->
           [number |-> headers[k].number, title |-> headers[k].title,
            content |-> Strip(SubSeq(text, headers[k].start + 1, headers[k].end)),
            chapter |-> TagOf(chapter_positions, headers[k].start),
            section |-> TagOf(section_positions, headers[k].start),
            paragraphs |-> <<>>, requirements |-> <<>>, entities |-> <<>>]]

\* the lines of a document.  raw is the line as it is in the document, normal
\* is the line as preprocess_text leaves it; args.text keeps the lines written.
DocumentLines ==
    {[kind |-> "chapter", number |-> <<"I">>, raw |-> <<"C", "H", "A", "P", "T", "E", "R", " ", "I", " ", "G">>, normal |-> <<"C", "H", "A", "P", "T", "E", "R", " ", "I", " ", "G">>],
     [kind |-> "chapter", number |-> <<"I", "I">>, raw |-> <<"C", "H", "A", "P", "T", "E", "R", " ", "I", "I", " ", "H">>, normal |-> <<"C", "H", "A", "P", "T", "E", "R", " ", "I", "I", " ", "H">>],
     [kind |-> "section", number |-> <<"1">>, raw |-> <<"S", "e", "c", "t", "i", "o", "n", " ", "1", ":", " ", "S">>, normal |-> <<"S", "e", "c", "t", "i", "o", "n", " ", "1", ":", " ", "S">>],
     [kind |-> "article", number |-> <<"1">>, raw |-> <<"A", "r", "t", "i", "c", "l", "e", " ", "1", " ", "-", " ", "T">>, normal |-> <<"A", "r", "t", "i", "c", "l", "e", " ", "1", " ", "-", " ", "T">>],
     [kind |-> "article", number |-> <<"2">>, raw |-> <<"A", "r", "t", "i", "c", "l", "e", " ", " ", "2", "-", "U">>, normal |-> <<"A", "r", "t", "i", "c", "l", "e", " ", "2", " ", "-", " ", "U">>],
     [kind |-> "body", number |-> <<>>, raw |-> <<"b", " ", " ", "l", "1", "|", EmDash>>,
      normal |-> <<"b", " ", "h", "I", "-">>]}

\* the text of the lines, each ended by a newline
RECURSIVE RawText(_)
RawText(lines) ==
    IF lines = <<>> THEN <<>> ELSE Head(lines).raw \o <<"\n">> \o RawText(Tail(lines))

WriteLine(line) ==
    /\ run.stage = "new" /\ ret = NoRet
    /\ Len(args.text) < MaxTexts
    /\ args' = [args EXCEPT !.text = Append(@, line)]
    /\ UNCHANGED <<self, db, tx, pc, loc, run, ret, rd, files>>

\* extract_articles_with_structure(text) called on the text of the document;
\* ret.value keeps the interval lists of the call
ExtractArticles ==
    /\ run.stage = "new" /\ ret = NoRet /\ args.text # <<>>
    /\ args' = [args EXCEPT !.articles =
                   extract_articles_with_structure(RawText(args.text))]
    /\ ret' = [op |-> "extract_articles_with_structure", arg |-> "text",
               raised |-> FALSE, value |-> Intervals(RawText(args.text))]
    /\ UNCHANGED <<self, db, tx, pc, loc, run, rd, files>>

\* as in parse_and_load: preprocess_text, then extract_articles_with_structure
\* on the text it returns
PreprocessAndExtractArticles ==
    /\ run.stage = "new" /\ ret = NoRet /\ args.text # <<>>
    /\ args' = [args EXCEPT !.articles =
                   extract_articles_with_structure(preprocess_text(RawText(args.text)))]
    /\ ret' = [op |-> "extract_articles_with_structure", arg |-> "preprocessed_text",
               raised |-> FALSE,
               value |-> Intervals(preprocess_text(RawText(args.text)))]
    /\ UNCHANGED <<self, db, tx, pc, loc, run, rd, files>>

ArticleNext ==
    \/ \E line \in DocumentLines : WriteLine(line)
    \/ ExtractArticles
    \/ PreprocessAndExtractArticles

ArticleSpec == Init /\ [][ArticleNext]_vars

(***************************************************************************)
(* The paragraph stage on article contents as extract_articles_with_       *)
(* structure leaves them: a header first, then words, markers and numbers  *)
(* in any order.  args.text keeps the pieces written.                      *)
(***************************************************************************)
\* the header with the rest of the content on the lines after it, and the
\* header with the rest of the content on its own line
HeaderLinePiece == <<"A", "r", "t", "i", "c", "l", "e", " ", "1", " ", "-", " ", "T", "\n">>
HeaderPiece == <<"A", "r", "t", "i", "c", "l", "e", " ", "1", " ", "-", " ", "T">>
HeaderPieces == {HeaderLinePiece, HeaderPiece}

\* a number that is no paragraph marker
AmountWord == <<" ", "3", "0">>

ContentPieces ==
    PlainWords \cup {DigitWord, AmountWord, NumberPiece(1), NumberPiece(2), LetterPiece(1)}

\* the caller writes the content of an article: a header or not, then pieces
WriteContent(piece) ==
    /\ run.stage = "new" /\ args.articles = <<>>
    /\ Len(args.text) < MaxTexts
    /\ piece \in HeaderPieces => args.text = <<>>
    /\ args' = [args EXCEPT !.text = Append(@, piece)]
    /\ UNCHANGED <<self, db, tx, pc, loc, run, ret, rd, files>>

ContentNext ==
    \/ \E piece \in HeaderPieces \cup ContentPieces : WriteContent(piece)
    \/ ExtractParagraphs

ContentSpec == Init /\ [][ContentNext]_vars

(***************************************************************************)
(* The stages of parse_and_load called article by article, in any order    *)
(* and any number of times, on the articles of a document.  ret keeps      *)
(* which stage was called on which article, and which was called again.    *)
(***************************************************************************)
MaxCalls == 7        \* calls of the stage methods

GlossaryContent == <<"A", "r", "t", "i", "c", "l", "e", " ", "4", " ", "-", " ", "T", "\n", "A", "r", "t", "i", "c", "l", "e", " ", "5", " ", "1", ".", " ", "'", "a", "'", " ", "m", "e", "a", "n", "s", " ", "b", ".", " ", "2", ".", " ", "s", "h", "a", "l", "l", " ", "a", "c", "t", " ", "w", "i", "t", "h", "i", "n", " ", "d", "a", "y", "s", ".">>
ReplyContent == <<"A", "r", "t", "i", "c", "l", "e", " ", "5", " ", "-", " ", "T", "\n", "A", "r", "t", "i", "c", "l", "e", " ", "4", " ", "1", ".", " ", "m", "u", "s", "t", " ", "r", "e", "p", "l", "y", " ", "p", "r", "o", "m", "p", "t", "l", "y", ".">>
SecondGlossaryContent == <<"A", "r", "t", "i", "c", "l", "e", " ", "4", " ", "-", " ", "T", "\n", "1", ".", " ", "'", "a", "'", " ", "m", "e", "a", "n", "s", " ", "c", ".">>

\* an article as extract_articles_with_structure returns it
ArticleOf(number, content) ==
    [number |-> number, title |-> <<"T">>, content |-> content, chapter |-> <<>>,
     section |-> <<>>, paragraphs |-> <<>>, requirements |-> <<>>, entities |-> <<>>]

Documents ==
    {<<ArticleOf(<<"4">>, GlossaryContent), ArticleOf(<<"5">>, ReplyContent)>>,
     <<ArticleOf(<<"4">>, GlossaryContent), ArticleOf(<<"4">>, SecondGlossaryContent)>>}

StageNames == {"paragraphs", "requirements", "cross_references", "definitions"}

\* the stage was called on the articles of positions on
Called(stage, on) ==
    [op |-> "stages", arg |-> <<>>, raised |-> FALSE,
     value |-> [done |-> ret.value.done \cup {<<stage, i>> : i \in on},
                again |-> ret.value.again
                            \cup {<<stage, i>> : i \in {j \in on : <<stage, j>> \in ret.value.done}}]]

StageCall ==
    /\ run.stage = "stages" /\ run.calls < MaxCalls

\* articles = self.extract_articles_with_structure(preprocessed_text)
LoadArticles(document) ==
    /\ run.stage = "new" /\ ret = NoRet /\ args.articles = <<>> /\ args.text = <<>>
    /\ args' = [args EXCEPT !.articles = document]
    /\ run' = [run EXCEPT !.stage = "stages"]
    /\ ret' = [op |-> "stages", arg |-> <<>>, raised |-> FALSE,
               value |-> [done |-> {}, again |-> {}]]
    /\ UNCHANGED <<self, db, tx, pc, loc, rd, files>>

\* articles[i] = self.extract_paragraphs_and_subparagraphs(articles[i])
StageParagraphs(i) ==
    /\ StageCall
    /\ args' = [args EXCEPT !.articles[i].paragraphs =
                   extract_paragraphs_and_subparagraphs(args.articles[i].content)]
    /\ run' = [run EXCEPT !.calls = @ + 1]
    /\ ret' = Called("paragraphs", {i})
    /\ UNCHANGED <<self, db, tx, pc, loc, rd, files>>

\* articles[i] = self.extract_requirements(articles[i]), on an article that
\* has its paragraphs
StageRequirements(i) ==
    /\ StageCall
    /\ <<"paragraphs", i>> \in ret.value.done
    /\ LET article == args.articles[i]
           found == ClassifyParagraphs(article, Len(article.paragraphs))
       IN /\ args' = [args EXCEPT !.articles[i].requirements = found.requirements]
          /\ self' = [self EXCEPT !.time_requirements = @ \o found.time_requirements]
    /\ run' = [run EXCEPT !.calls = @ + 1]
    /\ ret' = Called("requirements", {i})
    /\ UNCHANGED <<db, tx, pc, loc, rd, files>>

\* the articles of positions on, in the order of the list
ArticlesOn(on) ==
    IF on = {1} THEN <<args.articles[1]>>
    ELSE IF on = {2} THEN <<args.articles[2]>>
    ELSE args.articles

\* self.extract_cross_references(...) on one article or on all
StageCrossReferences(on) ==
    /\ StageCall
    /\ self' = [self EXCEPT !.cross_references =
                   extract_cross_references(ArticlesOn(on), Len(ArticlesOn(on)))]
    /\ run' = [run EXCEPT !.calls = @ + 1]
    /\ ret' = Called("cross_references", on)
    /\ UNCHANGED <<args, db, tx, pc, loc, rd, files>>

\* self.extract_definitions(...) on one article or on all, each with its
\* paragraphs
StageDefinitions(on) ==
    /\ StageCall
    /\ \A i \in on : <<"paragraphs", i>> \in ret.value.done
    /\ self' = [self EXCEPT !.definitions =
                   extract_definitions(ArticlesOn(on), Len(ArticlesOn(on)))]
    /\ run' = [run EXCEPT !.calls = @ + 1]
    /\ ret' = Called("definitions", on)
    /\ UNCHANGED <<args, db, tx, pc, loc, rd, files>>

ArticleSets == {{1}, {2}, {1, 2}}

StagesNext ==
    \/ \E document \in Documents : LoadArticles(document)
    \/ \E i \in 1..2 : StageParagraphs(i)
    \/ \E i \in 1..2 : StageRequirements(i)
    \/ \E on \in ArticleSets : StageCrossReferences(on)
    \/ \E on \in ArticleSets : StageDefinitions(on)

StagesSpec == Init /\ [][StagesNext]_vars

(***************************************************************************)
(* identify_key_actors.  The content of an article is written sentence by  *)
(* sentence; the sentences that the language pipeline finds in the content *)
(* (doc.sents) are the sentences written.  args.text keeps, for each       *)
(* sentence, the article it was written into.                              *)
(***************************************************************************)
\* actor_keywords[actor_type], in list order
actor_keywords(actor_type) ==
    IF actor_type = <<"data", "_", "subject">>
    THEN <<<<"d", "a", "t", "a", " ", "s", "u", "b", "j", "e", "c", "t">>,
           <<"n", "a", "t", "u", "r", "a", "l", " ", "p", "e", "r", "s", "o", "n">>,
           <<"c", "o", "n", "c", "e", "r", "n", "e", "d", " ", "p", "e", "r", "s", "o", "n">>,
           <<"i", "n", "d", "i", "v", "i", "d", "u", "a", "l">>>>
    ELSE
    IF actor_type = <<"controller">>
    THEN <<<<"c", "o", "n", "t", "r", "o", "l", "l", "e", "r">>,
           <<"j", "o", "i", "n", "t", " ", "c", "o", "n", "t", "r", "o", "l", "l", "e", "r">>>>
    ELSE
    IF actor_type = <<"processor">>
    THEN <<<<"p", "r", "o", "c", "e", "s", "s", "o", "r">>,
           <<"s", "u", "b", "-", "p", "r", "o", "c", "e", "s", "s", "o", "r">>>>
    ELSE
    IF actor_type = <<"authority">>
    THEN <<<<"s", "u", "p", "e", "r", "v", "i", "s", "o", "r", "y", " ", "a", "u", "t", "h", "o", "r", "i", "t", "y">>,
           <<"c", "o", "m", "p", "e", "t", "e", "n", "t", " ", "a", "u", "t", "h", "o", "r", "i", "t", "y">>,
           <<"l", "e", "a", "d", " ", "a", "u", "t", "h", "o", "r", "i", "t", "y">>>>
    ELSE
    IF actor_type = <<"third", "_", "party">>
    THEN <<<<"t", "h", "i", "r", "d", " ", "p", "a", "r", "t", "y">>,
           <<"t", "h", "i", "r", "d", "-", "p", "a", "r", "t", "y">>,
           <<"t", "h", "i", "r", "d", " ", "c", "o", "u", "n", "t", "r", "y">>>>
    ELSE
    IF actor_type = <<"recipient">>
    THEN <<<<"r", "e", "c", "i", "p", "i", "e", "n", "t">>>>
    ELSE <<>>

\* the sentences of article_num, in order
SentencesOf(sentences, article_num) ==
    LET own == {i \in 1..Len(sentences) : sentences[i].article = article_num}
    IN [k \in 1..Cardinality(own) |->
           sentences[CHOOSE i \in own : Cardinality({j \in own : j <= i}) = k].chars]

\* "for sent in doc.sents: if keyword in sent.text.lower(): append": the
\* mentions of the first n sentences
RECURSIVE MentionsOfKeyword(_, _, _, _)
MentionsOfKeyword(article_num, sents, keyword, n) ==
    IF n = 0 THEN <<>>
    ELSE MentionsOfKeyword(article_num, sents, keyword, n - 1)
            \o (IF Contains(LowerText(sents[n]), keyword)
                THEN <<[article |-> article_num, text |-> Strip(sents[n])]>>
                ELSE <<>>)

\* "if keyword in content", for the k-th keyword of the type
KeywordInContent(content, keywords, k) == Contains(content, keywords[k])

\* "for keyword in keywords": the mentions of the first k keywords
RECURSIVE MentionsOfType(_, _, _, _)
MentionsOfType(article, sents, keywords, k) ==
    IF k = 0 THEN <<>>
    ELSE MentionsOfType(article, sents, keywords, k - 1)
            \o (IF KeywordInContent(LowerText(article.content), keywords, k)
                THEN MentionsOfKeyword(article.number, sents, keywords[k], Len(sents))
                ELSE <<>>)

\* "for article in articles": actors[actor_type] after the first n articles
RECURSIVE MentionsOfArticles(_, _, _, _)
MentionsOfArticles(articles, sentences, actor_type, n) ==
    IF n = 0 THEN <<>>
    ELSE MentionsOfArticles(articles, sentences, actor_type, n - 1)
            \o MentionsOfType(articles[n], SentencesOf(sentences, articles[n].number),
                              actor_keywords(actor_type), Len(actor_keywords(actor_type)))

identify_key_actors(articles, sentences) ==
    [actor_type \in ActorTypeSet |->
        MentionsOfArticles(articles, sentences, actor_type, Len(articles))]

ControllerActs == <<"T", "h", "e", " ", "C", "o", "n", "t", "r", "o", "l", "l", "e", "r", " ", "a", "c", "t", "s", ".">>
JointControllerActs == <<"A", " ", "j", "o", "i", "n", "t", " ", "c", "o", "n", "t", "r", "o", "l", "l", "e", "r", " ", "a", "c", "t", "s", ".">>
SubProcessorActs == <<"T", "h", "e", " ", "s", "u", "b", "-", "p", "r", "o", "c", "e", "s", "s", "o", "r", " ", "t", "e", "l", "l", "s", " ", "t", "h", "e", " ", "r", "e", "c", "i", "p", "i", "e", "n", "t", ".">>
PersonSentence == <<"A", "n", " ", "i", "n", "d", "i", "v", "i", "d", "u", "a", "l", " ", "i", "s", " ", "a", " ", "n", "a", "t", "u", "r", "a", "l", " ", "p", "e", "r", "s", "o", "n", ".">>
NoActorSentence == <<"N", "o", "t", "h", "i", "n", "g", " ", "i", "s", " ", "s", "a", "i", "d", ".">>
ActorSentences ==
    {ControllerActs, JointControllerActs, SubProcessorActs, PersonSentence, NoActorSentence}

\* the next article begins
WriteActorArticle ==
    /\ run.stage = "new" /\ ret = NoRet
    /\ Len(args.articles) < Len(SourceNumbers)
    /\ Len(args.articles) + Len(args.text) < MaxTexts
    /\ args.articles # <<>> => args.articles[1].number = SourceNumbers[1]
    /\ args.articles # <<>> => args.articles[Len(args.articles)].content # <<>>
    /\ args' = [args EXCEPT
                  !.articles = Append(@, [number |-> SourceNumbers[Len(@) + 1],
                                          title |-> <<"T">>, content |-> <<>>,
                                          chapter |-> <<>>, section |-> <<>>,
                                          paragraphs |-> <<>>, requirements |-> <<>>,
                                          entities |-> <<>>])]
    /\ UNCHANGED <<self, db, tx, pc, loc, run, ret, rd, files>>

\* a sentence is written at the end of the content of the last article
WriteSentence(chars) ==
    /\ run.stage = "new" /\ ret = NoRet
    /\ args.articles # <<>> /\ args.articles[1].number = SourceNumbers[1]
    /\ Len(args.articles) + Len(args.text) < MaxTexts
    /\ args' = [args EXCEPT
                  !.articles[Len(args.articles)].content =
                      IF @ = <<>> THEN chars ELSE @ \o <<" ">> \o chars,
                  !.text = Append(@, [article |-> args.articles[Len(args.articles)].number,
                                      chars |-> chars])]
    /\ UNCHANGED <<self, db, tx, pc, loc, run, ret, rd, files>>

\* actors = self.identify_key_actors(articles)
IdentifyKeyActors ==
    /\ run.stage = "new" /\ ret = NoRet
    /\ args.text # <<>>
    /\ args' = [args EXCEPT !.actors = identify_key_actors(args.articles, args.text)]
    /\ ret' = [op |-> "identify_key_actors", arg |-> <<>>, raised |-> FALSE,
               value |-> <<>>]
    /\ UNCHANGED <<self, db, tx, pc, loc, run, rd, files>>

ActorNext ==
    \/ WriteActorArticle
    \/ \E chars \in ActorSentences : WriteSentence(chars)
    \/ IdentifyKeyActors

ActorSpec == Init /\ [][ActorNext]_vars

(***************************************************************************)
(* extract_definitions on texts that hold several phrases.  args.text      *)
(* keeps, for each text written, where it is and the phrases that the      *)
(* patterns find in it, in the order "means", "refers to", "shall mean".   *)
(***************************************************************************)
GlossaryTexts ==
    {[chars |-> <<"'", "p", "d", "'", " ", "r", "e", "f", "e", "r", "s", " ", "t", "o", " ", "y", " ", "'", "p", "d", "'", " ", "m", "e", "a", "n", "s", " ", "x">>,
      phrases |-> <<[term |-> <<"p", "d">>, definition |-> <<"x">>],
                    [term |-> <<"p", "d">>, definition |-> <<"y", " ", "'", "p", "d", "'", " ", "m", "e", "a", "n", "s", " ", "x">>]>>],
     [chars |-> <<"'", "p", "d", "'", " ", "m", "e", "a", "n", "s", " ", "x">>,
      phrases |-> <<[term |-> <<"p", "d">>, definition |-> <<"x">>]>>],
     [chars |-> <<"'", "c", "'", " ", "S", "h", "a", "l", "l", " ", "M", "e", "a", "n", " ", "z">>,
      phrases |-> <<[term |-> <<"c">>, definition |-> <<"z">>]>>],
     [chars |-> <<"'", "c", "'", " ", "s", "h", "a", "l", "l", " ", "m", "e", "a", "n", " ", "w", " ", "'", "p", "d", "'", " ", "m", "e", "a", "n", "s", " ", "v">>,
      phrases |-> <<[term |-> <<"p", "d">>, definition |-> <<"v">>],
                    [term |-> <<"c">>, definition |-> <<"w", " ", "'", "p", "d", "'", " ", "m", "e", "a", "n", "s", " ", "v">>]>>],
     [chars |-> <<"n", "o", " ", "t", "e", "r", "m">>,
      phrases |-> <<>>]}

\* a paragraph of the last article
WriteGlossaryParagraph(piece) ==
    /\ run.stage = "new" /\ ret = NoRet /\ run.nodes < MaxTexts
    /\ args.articles # <<>>
    /\ LET article == args.articles[Len(args.articles)]
           number == <<DigitNames[Len(article.paragraphs) + 1]>>
       IN args' = [args EXCEPT
                    !.articles[Len(args.articles)].paragraphs =
                        Append(@, [number |-> number, text |-> piece.chars,
                                   subparagraphs |-> <<>>]),
                    !.text = Append(@, [index |-> Len(args.articles),
                                        article |-> article.number, title |-> article.title,
                                        paragraph |-> number, subparagraph |-> <<>>,
                                        phrases |-> piece.phrases])]
    /\ run' = [run EXCEPT !.nodes = @ + 1]
    /\ UNCHANGED <<self, db, tx, pc, loc, ret, rd, files>>

\* a subparagraph of the last paragraph of the last article
WriteGlossarySubparagraph(piece) ==
    /\ run.stage = "new" /\ ret = NoRet /\ run.nodes < MaxTexts
    /\ args.articles # <<>>
    /\ args.articles[Len(args.articles)].paragraphs # <<>>
    /\ LET article == args.articles[Len(args.articles)]
           paragraph == article.paragraphs[Len(article.paragraphs)]
           letter == <<LetterNames[Len(paragraph.subparagraphs) + 1]>>
       IN args' = [args EXCEPT
                    !.articles[Len(args.articles)].paragraphs[Len(article.paragraphs)]
                        .subparagraphs =
                        Append(@, [letter |-> letter, text |-> piece.chars,
                                   subsubparagraphs |-> <<>>]),
                    !.text = Append(@, [index |-> Len(args.articles),
                                        article |-> article.number, title |-> article.title,
                                        paragraph |-> paragraph.number,
                                        subparagraph |-> letter,
                                        phrases |-> piece.phrases])]
    /\ run' = [run EXCEPT !.nodes = @ + 1]
    /\ UNCHANGED <<self, db, tx, pc, loc, ret, rd, files>>

GlossaryNext ==
    \/ \E number \in GlossaryNumbers : WriteArticle(number, DefinitionsTitle)
    \/ \E piece \in GlossaryTexts : WriteGlossaryParagraph(piece)
    \/ \E piece \in GlossaryTexts : WriteGlossarySubparagraph(piece)
    \/ ExtractDefinitions

GlossarySpec == Init /\ [][GlossaryNext]_vars

(***************************************************************************)
(* PrivacyPolicyGenerator (src/policy_generator.py) and the two loops that *)
(* drive it: PrivacyPolicyChatbot.run (src/chatbot_cli.py) and             *)
(* PolicyGeneratorUI._run_questionnaire.  Here self holds company_info     *)
(* (a dict: the items in insertion order) and current_question_index, and  *)
(* run holds the loop's question, the number of answers accepted and       *)
(* whether one was rejected.  Texts are sequences of characters; an answer *)
(* is a str or a list of str.                                              *)
(***************************************************************************)
MaxChanges == 2      \* answers of one run that are not the first option listed

questions ==
    <<
      [id |-> <<"c", "o", "m", "p", "a", "n", "y", "_", "n", "a", "m", "e">>,
       section |-> "data_controller", required |-> TRUE,
       has_options |-> FALSE, multi_select |-> FALSE, options |-> <<>>,
       has_condition |-> FALSE, condition |-> <<>>],
      [id |-> <<"c", "o", "m", "p", "a", "n", "y", "_", "a", "d", "d", "r",
              "e", "s", "s">>,
       section |-> "data_controller", required |-> TRUE,
       has_options |-> FALSE, multi_select |-> FALSE, options |-> <<>>,
       has_condition |-> FALSE, condition |-> <<>>],
      [id |-> <<"c", "o", "m", "p", "a", "n", "y", "_", "c", "o", "n", "t",
              "a", "c", "t", "_", "e", "m", "a", "i", "l">>,
       section |-> "data_controller", required |-> TRUE,
       has_options |-> FALSE, multi_select |-> FALSE, options |-> <<>>,
       has_condition |-> FALSE, condition |-> <<>>],
      [id |-> <<"c", "o", "m", "p", "a", "n", "y", "_", "c", "o", "n", "t",
              "a", "c", "t", "_", "p", "h", "o", "n", "e">>,
       section |-> "data_controller", required |-> FALSE,
       has_options |-> FALSE, multi_select |-> FALSE, options |-> <<>>,
       has_condition |-> FALSE, condition |-> <<>>],
      [id |-> <<"h", "a", "s", "_", "d", "p", "o">>,
       section |-> "dpo_info", required |-> TRUE,
       has_options |-> TRUE, multi_select |-> FALSE,
       options |->
         <<<<"Y", "e", "s">>,
           <<"N", "o">>>>,
       has_condition |-> FALSE, condition |-> <<>>],
      [id |-> <<"d", "p", "o", "_", "n", "a", "m", "e">>,
       section |-> "dpo_info", required |-> TRUE,
       has_options |-> FALSE, multi_select |-> FALSE, options |-> <<>>,
       has_condition |-> TRUE,
       condition |-> <<"h", "a", "s", "_", "d", "p", "o", " ", "=", "=", " ", "'", "Y",
          "e", "s", "'">>],
      [id |-> <<"d", "p", "o", "_", "c", "o", "n", "t", "a", "c", "t">>,
       section |-> "dpo_info", required |-> TRUE,
       has_options |-> FALSE, multi_select |-> FALSE, options |-> <<>>,
       has_condition |-> TRUE,
       condition |-> <<"h", "a", "s", "_", "d", "p", "o", " ", "=", "=", " ", "'", "Y",
          "e", "s", "'">>],
      [id |-> <<"d", "p", "o", "_", "a", "l", "t", "e", "r", "n", "a", "t",
              "i", "v", "e">>,
       section |-> "dpo_info", required |-> TRUE,
       has_options |-> FALSE, multi_select |-> FALSE, options |-> <<>>,
       has_condition |-> TRUE,
       condition |-> <<"h", "a", "s", "_", "d", "p", "o", " ", "=", "=", " ", "'", "N",
          "o", "'">>],
      [id |-> <<"d", "a", "t", "a", "_", "c", "o", "l", "l", "e", "c", "t",
              "e", "d">>,
       section |-> "processing_purposes", required |-> TRUE,
       has_options |-> TRUE, multi_select |-> TRUE,
       options |->
         <<<<"N", "a", "m", "e">>,
           <<"E", "m", "a", "i", "l", " ", "a", "d", "d", "r", "e", "s", "s">>,
           <<"P", "h", "o", "n", "e", " ", "n", "u", "m", "b", "e", "r">>,
           <<"A", "d", "d", "r", "e", "s", "s">>,
           <<"D", "a", "t", "e", " ", "o", "f", " ", "b", "i", "r", "t", "h">>,
           <<"P", "a", "y", "m", "e", "n", "t", " ", "i", "n", "f", "o", "r",
           "m", "a", "t", "i", "o", "n">>,
           <<"I", "P", " ", "a", "d", "d", "r", "e", "s", "s">>,
           <<"B", "r", "o", "w", "s", "e", "r", " ", "t", "y", "p", "e">>,
           <<"D", "e", "v", "i", "c", "e", " ", "i", "n", "f", "o", "r", "m",
           "a", "t", "i", "o", "n">>,
           <<"L", "o", "c", "a", "t", "i", "o", "n", " ", "d", "a", "t", "a">>,
           <<"C", "o", "o", "k", "i", "e", "s">>,
           <<"U", "s", "a", "g", "e", " ", "d", "a", "t", "a">>,
           <<"S", "p", "e", "c", "i", "a", "l", " ", "c", "a", "t", "e", "g",
           "o", "r", "i", "e", "s", " ", "o", "f", " ", "p", "e", "r", "s",
           "o", "n", "a", "l", " ", "d", "a", "t", "a">>,
           <<"O", "t", "h", "e", "r">>>>,
       has_condition |-> FALSE, condition |-> <<>>],
      [id |-> <<"s", "p", "e", "c", "i", "a", "l", "_", "d", "a", "t", "a",
              "_", "d", "e", "t", "a", "i", "l", "s">>,
       section |-> "processing_purposes", required |-> TRUE,
       has_options |-> FALSE, multi_select |-> FALSE, options |-> <<>>,
       has_condition |-> TRUE,
       condition |-> <<"'", "S", "p", "e", "c", "i", "a", "l", " ", "c", "a", "t", "e",
          "g", "o", "r", "i", "e", "s", " ", "o", "f", " ", "p", "e", "r",
          "s", "o", "n", "a", "l", " ", "d", "a", "t", "a", "'", " ", "i",
          "n", " ", "d", "a", "t", "a", "_", "c", "o", "l", "l", "e", "c",
          "t", "e", "d">>],
      [id |-> <<"o", "t", "h", "e", "r", "_", "d", "a", "t", "a", "_", "c",
              "o", "l", "l", "e", "c", "t", "e", "d">>,
       section |-> "processing_purposes", required |-> TRUE,
       has_options |-> FALSE, multi_select |-> FALSE, options |-> <<>>,
       has_condition |-> TRUE,
       condition |-> <<"'", "O", "t", "h", "e", "r", "'", " ", "i", "n", " ", "d", "a",
          "t", "a", "_", "c", "o", "l", "l", "e", "c", "t", "e", "d">>],
      [id |-> <<"p", "r", "o", "c", "e", "s", "s", "i", "n", "g", "_", "p",
              "u", "r", "p", "o", "s", "e", "s", "_", "l", "i", "s", "t">>,
       section |-> "processing_purposes", required |-> TRUE,
       has_options |-> TRUE, multi_select |-> TRUE,
       options |->
         <<<<"T", "o", " ", "p", "r", "o", "v", "i", "d", "e", " ", "a", "n",
           "d", " ", "m", "a", "i", "n", "t", "a", "i", "n", " ", "o", "u",
           "r", " ", "s", "e", "r", "v", "i", "c", "e">>,
           <<"T", "o", " ", "n", "o", "t", "i", "f", "y", " ", "a", "b", "o",
           "u", "t", " ", "c", "h", "a", "n", "g", "e", "s", " ", "t", "o",
           " ", "o", "u", "r", " ", "s", "e", "r", "v", "i", "c", "e">>,
           <<"T", "o", " ", "a", "l", "l", "o", "w", " ", "p", "a", "r", "t",
           "i", "c", "i", "p", "a", "t", "i", "o", "n", " ", "i", "n", " ",
           "i", "n", "t", "e", "r", "a", "c", "t", "i", "v", "e", " ", "f",
           "e", "a", "t", "u", "r", "e", "s">>,
           <<"T", "o", " ", "p", "r", "o", "v", "i", "d", "e", " ", "c", "u",
           "s", "t", "o", "m", "e", "r", " ", "s", "u", "p", "p", "o", "r",
           "t">>,
           <<"T", "o", " ", "g", "a", "t", "h", "e", "r", " ", "a", "n", "a",
           "l", "y", "s", "i", "s", " ", "o", "r", " ", "v", "a", "l", "u",
           "a", "b", "l", "e", " ", "i", "n", "f", "o", "r", "m", "a", "t",
           "i", "o", "n">>,
           <<"T", "o", " ", "p", "r", "o", "c", "e", "s", "s", " ", "p", "a",
           "y", "m", "e", "n", "t", "s">>,
           <<"T", "o", " ", "d", "e", "l", "i", "v", "e", "r", " ", "a", "d",
           "v", "e", "r", "t", "i", "s", "e", "m", "e", "n", "t", "s">>,
           <<"T", "o", " ", "d", "e", "t", "e", "c", "t", ",", " ", "p", "r",
           "e", "v", "e", "n", "t", " ", "a", "n", "d", " ", "a", "d", "d",
           "r", "e", "s", "s", " ", "t", "e", "c", "h", "n", "i", "c", "a",
           "l", " ", "i", "s", "s", "u", "e", "s">>,
           <<"T", "o", " ", "s", "e", "n", "d", " ", "n", "e", "w", "s", "l",
           "e", "t", "t", "e", "r", "s">>,
           <<"T", "o", " ", "c", "o", "m", "m", "u", "n", "i", "c", "a", "t",
           "e", " ", "a", "b", "o", "u", "t", " ", "n", "e", "w", " ", "p",
           "r", "o", "d", "u", "c", "t", "s", " ", "o", "r", " ", "s", "e",
           "r", "v", "i", "c", "e", "s">>,
           <<"T", "o", " ", "c", "o", "m", "p", "l", "y", " ", "w", "i", "t",
           "h", " ", "l", "e", "g", "a", "l", " ", "o", "b", "l", "i", "g",
           "a", "t", "i", "o", "n", "s">>,
           <<"O", "t", "h", "e", "r">>>>,
       has_condition |-> FALSE, condition |-> <<>>],
      [id |-> <<"o", "t", "h", "e", "r", "_", "p", "r", "o", "c", "e", "s",
              "s", "i", "n", "g", "_", "p", "u", "r", "p", "o", "s", "e",
              "s">>,
       section |-> "processing_purposes", required |-> TRUE,
       has_options |-> FALSE, multi_select |-> FALSE, options |-> <<>>,
       has_condition |-> TRUE,
       condition |-> <<"'", "O", "t", "h", "e", "r", "'", " ", "i", "n", " ", "p", "r",
          "o", "c", "e", "s", "s", "i", "n", "g", "_", "p", "u", "r", "p",
          "o", "s", "e", "s", "_", "l", "i", "s", "t">>],
      [id |-> <<"l", "e", "g", "a", "l", "_", "b", "a", "s", "i", "s">>,
       section |-> "processing_purposes", required |-> TRUE,
       has_options |-> TRUE, multi_select |-> TRUE,
       options |->
         <<<<"C", "o", "n", "s", "e", "n", "t">>,
           <<"P", "e", "r", "f", "o", "r", "m", "a", "n", "c", "e", " ", "o",
           "f", " ", "a", " ", "c", "o", "n", "t", "r", "a", "c", "t">>,
           <<"C", "o", "m", "p", "l", "i", "a", "n", "c", "e", " ", "w", "i",
           "t", "h", " ", "a", " ", "l", "e", "g", "a", "l", " ", "o", "b",
           "l", "i", "g", "a", "t", "i", "o", "n">>,
           <<"P", "r", "o", "t", "e", "c", "t", "i", "o", "n", " ", "o", "f",
           " ", "v", "i", "t", "a", "l", " ", "i", "n", "t", "e", "r", "e",
           "s", "t", "s">>,
           <<"P", "u", "b", "l", "i", "c", " ", "i", "n", "t", "e", "r", "e",
           "s", "t">>,
           <<"L", "e", "g", "i", "t", "i", "m", "a", "t", "e", " ", "i", "n",
           "t", "e", "r", "e", "s", "t", "s">>>>,
       has_condition |-> FALSE, condition |-> <<>>],
      [id |-> <<"l", "e", "g", "i", "t", "i", "m", "a", "t", "e", "_", "i",
              "n", "t", "e", "r", "e", "s", "t", "s", "_", "d", "e", "t", "a",
              "i", "l", "s">>,
       section |-> "legitimate_interests", required |-> TRUE,
       has_options |-> FALSE, multi_select |-> FALSE, options |-> <<>>,
       has_condition |-> TRUE,
       condition |-> <<"'", "L", "e", "g", "i", "t", "i", "m", "a", "t", "e", " ", "i",
          "n", "t", "e", "r", "e", "s", "t", "s", "'", " ", "i", "n", " ",
          "l", "e", "g", "a", "l", "_", "b", "a", "s", "i", "s">>],
      [id |-> <<"d", "a", "t", "a", "_", "s", "h", "a", "r", "i", "n", "g">>,
       section |-> "recipients", required |-> TRUE,
       has_options |-> TRUE, multi_select |-> FALSE,
       options |->
         <<<<"Y", "e", "s">>,
           <<"N", "o">>>>,
       has_condition |-> FALSE, condition |-> <<>>],
      [id |-> <<"t", "h", "i", "r", "d", "_", "p", "a", "r", "t", "y", "_",
              "c", "a", "t", "e", "g", "o", "r", "i", "e", "s">>,
       section |-> "recipients", required |-> TRUE,
       has_options |-> TRUE, multi_select |-> TRUE,
       options |->
         <<<<"S", "e", "r", "v", "i", "c", "e", " ", "p", "r", "o", "v", "i",
           "d", "e", "r", "s">>,
           <<"P", "a", "y", "m", "e", "n", "t", " ", "p", "r", "o", "c", "e",
           "s", "s", "o", "r", "s">>,
           <<"A", "n", "a", "l", "y", "t", "i", "c", "s", " ", "p", "r", "o",
           "v", "i", "d", "e", "r", "s">>,
           <<"A", "d", "v", "e", "r", "t", "i", "s", "i", "n", "g", " ", "p",
           "a", "r", "t", "n", "e", "r", "s">>,
           <<"B", "u", "s", "i", "n", "e", "s", "s", " ", "p", "a", "r", "t",
           "n", "e", "r", "s">>,
           <<"A", "f", "f", "i", "l", "i", "a", "t", "e", "s">>,
           <<"C", "l", "o", "u", "d", " ", "s", "e", "r", "v", "i", "c", "e",
           " ", "p", "r", "o", "v", "i", "d", "e", "r", "s">>,
           <<"L", "e", "g", "a", "l", " ", "a", "u", "t", "h", "o", "r", "i",
           "t", "i", "e", "s">>,
           <<"O", "t", "h", "e", "r">>>>,
       has_condition |-> TRUE,
       condition |-> <<"d", "a", "t", "a", "_", "s", "h", "a", "r", "i", "n", "g", " ",
          "=", "=", " ", "'", "Y", "e", "s", "'">>],
      [id |-> <<"t", "h", "i", "r", "d", "_", "p", "a", "r", "t", "y", "_",
              "p", "u", "r", "p", "o", "s", "e">>,
       section |-> "recipients", required |-> TRUE,
       has_options |-> FALSE, multi_select |-> FALSE, options |-> <<>>,
       has_condition |-> TRUE,
       condition |-> <<"d", "a", "t", "a", "_", "s", "h", "a", "r", "i", "n", "g", " ",
          "=", "=", " ", "'", "Y", "e", "s", "'">>],
      [id |-> <<"o", "t", "h", "e", "r", "_", "t", "h", "i", "r", "d", "_",
              "p", "a", "r", "t", "i", "e", "s">>,
       section |-> "recipients", required |-> TRUE,
       has_options |-> FALSE, multi_select |-> FALSE, options |-> <<>>,
       has_condition |-> TRUE,
       condition |-> <<"d", "a", "t", "a", "_", "s", "h", "a", "r", "i", "n", "g", " ",
          "=", "=", " ", "'", "Y", "e", "s", "'", " ", "a", "n", "d", " ",
          "'", "O", "t", "h", "e", "r", "'", " ", "i", "n", " ", "t", "h",
          "i", "r", "d", "_", "p", "a", "r", "t", "y", "_", "c", "a", "t",
          "e", "g", "o", "r", "i", "e", "s">>],
      [id |-> <<"i", "n", "t", "e", "r", "n", "a", "t", "i", "o", "n", "a",
              "l", "_", "t", "r", "a", "n", "s", "f", "e", "r", "s">>,
       section |-> "transfers", required |-> TRUE,
       has_options |-> TRUE, multi_select |-> FALSE,
       options |->
         <<<<"Y", "e", "s">>,
           <<"N", "o">>>>,
       has_condition |-> FALSE, condition |-> <<>>],
      [id |-> <<"t", "r", "a", "n", "s", "f", "e", "r", "_", "c", "o", "u",
              "n", "t", "r", "i", "e", "s">>,
       section |-> "transfers", required |-> TRUE,
       has_options |-> FALSE, multi_select |-> FALSE, options |-> <<>>,
       has_condition |-> TRUE,
       condition |-> <<"i", "n", "t", "e", "r", "n", "a", "t", "i", "o", "n", "a", "l",
          "_", "t", "r", "a", "n", "s", "f", "e", "r", "s", " ", "=", "=",
          " ", "'", "Y", "e", "s", "'">>],
      [id |-> <<"t", "r", "a", "n", "s", "f", "e", "r", "_", "s", "a", "f",
              "e", "g", "u", "a", "r", "d", "s">>,
       section |-> "transfers", required |-> TRUE,
       has_options |-> TRUE, multi_select |-> TRUE,
       options |->
         <<<<"S", "t", "a", "n", "d", "a", "r", "d", " ", "C", "o", "n", "t",
           "r", "a", "c", "t", "u", "a", "l", " ", "C", "l", "a", "u", "s",
           "e", "s", " ", "(", "S", "C", "C", "s", ")">>,
           <<"B", "i", "n", "d", "i", "n", "g", " ", "C", "o", "r", "p", "o",
           "r", "a", "t", "e", " ", "R", "u", "l", "e", "s", " ", "(", "B",
           "C", "R", "s", ")">>,
           <<"A", "d", "e", "q", "u", "a", "c", "y", " ", "d", "e", "c", "i",
           "s", "i", "o", "n", " ", "b", "y", " ", "t", "h", "e", " ", "E",
           "u", "r", "o", "p", "e", "a", "n", " ", "C", "o", "m", "m", "i",
           "s", "s", "i", "o", "n">>,
           <<"D", "e", "r", "o", "g", "a", "t", "i", "o", "n", "s", " ", "f",
           "o", "r", " ", "s", "p", "e", "c", "i", "f", "i", "c", " ", "s",
           "i", "t", "u", "a", "t", "i", "o", "n", "s", " ", "u", "n", "d",
           "e", "r", " ", "A", "r", "t", "i", "c", "l", "e", " ", "4", "9">>,
           <<"E", "x", "p", "l", "i", "c", "i", "t", " ", "C", "o", "n", "s",
           "e", "n", "t">>,
           <<"O", "t", "h", "e", "r">>>>,
       has_condition |-> TRUE,
       condition |-> <<"i", "n", "t", "e", "r", "n", "a", "t", "i", "o", "n", "a", "l",
          "_", "t", "r", "a", "n", "s", "f", "e", "r", "s", " ", "=", "=",
          " ", "'", "Y", "e", "s", "'">>],
      [id |-> <<"o", "t", "h", "e", "r", "_", "s", "a", "f", "e", "g", "u",
              "a", "r", "d", "s">>,
       section |-> "transfers", required |-> TRUE,
       has_options |-> FALSE, multi_select |-> FALSE, options |-> <<>>,
       has_condition |-> TRUE,
       condition |-> <<"i", "n", "t", "e", "r", "n", "a", "t", "i", "o", "n", "a", "l",
          "_", "t", "r", "a", "n", "s", "f", "e", "r", "s", " ", "=", "=",
          " ", "'", "Y", "e", "s", "'", " ", "a", "n", "d", " ", "'", "O",
          "t", "h", "e", "r", "'", " ", "i", "n", " ", "t", "r", "a", "n",
          "s", "f", "e", "r", "_", "s", "a", "f", "e", "g", "u", "a", "r",
          "d", "s">>],
      [id |-> <<"r", "e", "t", "e", "n", "t", "i", "o", "n", "_", "p", "e",
              "r", "i", "o", "d">>,
       section |-> "retention_period", required |-> TRUE,
       has_options |-> TRUE, multi_select |-> FALSE,
       options |->
         <<<<"F", "o", "r", " ", "t", "h", "e", " ", "d", "u", "r", "a", "t",
           "i", "o", "n", " ", "o", "f", " ", "t", "h", "e", " ", "u", "s",
           "e", "r", " ", "a", "c", "c", "o", "u", "n", "t">>,
           <<"F", "o", "r", " ", "a", " ", "s", "p", "e", "c", "i", "f", "i",
           "c", " ", "t", "i", "m", "e", " ", "p", "e", "r", "i", "o", "d">>,
           <<"U", "n", "t", "i", "l", " ", "t", "h", "e", " ", "p", "u", "r",
           "p", "o", "s", "e", " ", "i", "s", " ", "f", "u", "l", "f", "i",
           "l", "l", "e", "d">>,
           <<"A", "s", " ", "r", "e", "q", "u", "i", "r", "e", "d", " ", "b",
           "y", " ", "l", "a", "w">>,
           <<"A", "c", "c", "o", "r", "d", "i", "n", "g", " ", "t", "o", " ",
           "d", "a", "t", "a", " ", "m", "i", "n", "i", "m", "i", "z", "a",
           "t", "i", "o", "n", " ", "p", "r", "i", "n", "c", "i", "p", "l",
           "e", "s">>,
           <<"O", "t", "h", "e", "r">>>>,
       has_condition |-> FALSE, condition |-> <<>>],
      [id |-> <<"s", "p", "e", "c", "i", "f", "i", "c", "_", "r", "e", "t",
              "e", "n", "t", "i", "o", "n", "_", "p", "e", "r", "i", "o",
              "d">>,
       section |-> "retention_period", required |-> TRUE,
       has_options |-> FALSE, multi_select |-> FALSE, options |-> <<>>,
       has_condition |-> TRUE,
       condition |-> <<"r", "e", "t", "e", "n", "t", "i", "o", "n", "_", "p", "e", "r",
          "i", "o", "d", " ", "=", "=", " ", "'", "F", "o", "r", " ", "a",
          " ", "s", "p", "e", "c", "i", "f", "i", "c", " ", "t", "i", "m",
          "e", " ", "p", "e", "r", "i", "o", "d", "'">>],
      [id |-> <<"o", "t", "h", "e", "r", "_", "r", "e", "t", "e", "n", "t",
              "i", "o", "n", "_", "p", "e", "r", "i", "o", "d">>,
       section |-> "retention_period", required |-> TRUE,
       has_options |-> FALSE, multi_select |-> FALSE, options |-> <<>>,
       has_condition |-> TRUE,
       condition |-> <<"r", "e", "t", "e", "n", "t", "i", "o", "n", "_", "p", "e", "r",
          "i", "o", "d", " ", "=", "=", " ", "'", "O", "t", "h", "e", "r",
          "'">>],
      [id |-> <<"d", "a", "t", "a", "_", "s", "e", "c", "u", "r", "i", "t",
              "y">>,
       section |-> "security_measures", required |-> TRUE,
       has_options |-> TRUE, multi_select |-> TRUE,
       options |->
         <<<<"E", "n", "c", "r", "y", "p", "t", "i", "o", "n">>,
           <<"P", "s", "e", "u", "d", "o", "n", "y", "m", "i", "z", "a", "t",
           "i", "o", "n">>,
           <<"A", "c", "c", "e", "s", "s", " ", "c", "o", "n", "t", "r", "o",
           "l", "s">>,
           <<"R", "e", "g", "u", "l", "a", "r", " ", "s", "e", "c", "u", "r",
           "i", "t", "y", " ", "a", "s", "s", "e", "s", "s", "m", "e", "n",
           "t", "s">>,
           <<"D", "a", "t", "a", " ", "b", "a", "c", "k", "u", "p", " ", "p",
           "r", "o", "c", "e", "d", "u", "r", "e", "s">>,
           <<"S", "t", "a", "f", "f", " ", "t", "r", "a", "i", "n", "i", "n",
           "g", " ", "o", "n", " ", "d", "a", "t", "a", " ", "p", "r", "o",
           "t", "e", "c", "t", "i", "o", "n">>,
           <<"I", "n", "c", "i", "d", "e", "n", "t", " ", "r", "e", "s", "p",
           "o", "n", "s", "e", " ", "p", "l", "a", "n", "s">>,
           <<"O", "t", "h", "e", "r">>>>,
       has_condition |-> FALSE, condition |-> <<>>],
      [id |-> <<"o", "t", "h", "e", "r", "_", "s", "e", "c", "u", "r", "i",
              "t", "y", "_", "m", "e", "a", "s", "u", "r", "e", "s">>,
       section |-> "security_measures", required |-> TRUE,
       has_options |-> FALSE, multi_select |-> FALSE, options |-> <<>>,
       has_condition |-> TRUE,
       condition |-> <<"'", "O", "t", "h", "e", "r", "'", " ", "i", "n", " ", "d", "a",
          "t", "a", "_", "s", "e", "c", "u", "r", "i", "t", "y">>],
      [id |-> <<"a", "u", "t", "o", "m", "a", "t", "e", "d", "_", "p", "r",
              "o", "c", "e", "s", "s", "i", "n", "g">>,
       section |-> "automated_decision_making", required |-> TRUE,
       has_options |-> TRUE, multi_select |-> FALSE,
       options |->
         <<<<"Y", "e", "s">>,
           <<"N", "o">>>>,
       has_condition |-> FALSE, condition |-> <<>>],
      [id |-> <<"a", "u", "t", "o", "m", "a", "t", "e", "d", "_", "p", "r",
              "o", "c", "e", "s", "s", "i", "n", "g", "_", "d", "e", "t", "a",
              "i", "l", "s">>,
       section |-> "automated_decision_making", required |-> TRUE,
       has_options |-> FALSE, multi_select |-> FALSE, options |-> <<>>,
       has_condition |-> TRUE,
       condition |-> <<"a", "u", "t", "o", "m", "a", "t", "e", "d", "_", "p", "r", "o",
          "c", "e", "s", "s", "i", "n", "g", " ", "=", "=", " ", "'", "Y",
          "e", "s", "'">>],
      [id |-> <<"a", "u", "t", "o", "m", "a", "t", "e", "d", "_", "p", "r",
              "o", "c", "e", "s", "s", "i", "n", "g", "_", "s", "a", "f", "e",
              "g", "u", "a", "r", "d", "s">>,
       section |-> "automated_decision_making", required |-> TRUE,
       has_options |-> FALSE, multi_select |-> FALSE, options |-> <<>>,
       has_condition |-> TRUE,
       condition |-> <<"a", "u", "t", "o", "m", "a", "t", "e", "d", "_", "p", "r", "o",
          "c", "e", "s", "s", "i", "n", "g", " ", "=", "=", " ", "'", "Y",
          "e", "s", "'">>],
      [id |-> <<"d", "a", "t", "a", "_", "b", "r", "e", "a", "c", "h">>,
       section |-> "data_breach", required |-> TRUE,
       has_options |-> TRUE, multi_select |-> FALSE,
       options |->
         <<<<"Y", "e", "s">>,
           <<"N", "o">>>>,
       has_condition |-> FALSE, condition |-> <<>>],
      [id |-> <<"d", "a", "t", "a", "_", "b", "r", "e", "a", "c", "h", "_",
              "p", "r", "o", "c", "e", "d", "u", "r", "e", "s">>,
       section |-> "data_breach", required |-> TRUE,
       has_options |-> FALSE, multi_select |-> FALSE, options |-> <<>>,
       has_condition |-> TRUE,
       condition |-> <<"d", "a", "t", "a", "_", "b", "r", "e", "a", "c", "h", " ", "=",
          "=", " ", "'", "Y", "e", "s", "'">>],
      [id |-> <<"u", "s", "e", "s", "_", "c", "o", "o", "k", "i", "e", "s">>,
       section |-> "cookies", required |-> TRUE,
       has_options |-> TRUE, multi_select |-> FALSE,
       options |->
         <<<<"Y", "e", "s">>,
           <<"N", "o">>>>,
       has_condition |-> FALSE, condition |-> <<>>],
      [id |-> <<"c", "o", "o", "k", "i", "e", "_", "t", "y", "p", "e", "s">>,
       section |-> "cookies", required |-> TRUE,
       has_options |-> TRUE, multi_select |-> TRUE,
       options |->
         <<<<"E", "s", "s", "e", "n", "t", "i", "a", "l", "/", "N", "e", "c",
           "e", "s", "s", "a", "r", "y", " ", "c", "o", "o", "k", "i", "e",
           "s">>,
           <<"P", "r", "e", "f", "e", "r", "e", "n", "c", "e", "/", "F", "u",
           "n", "c", "t", "i", "o", "n", "a", "l", "i", "t", "y", " ", "c",
           "o", "o", "k", "i", "e", "s">>,
           <<"S", "t", "a", "t", "i", "s", "t", "i", "c", "s", "/", "A", "n",
           "a", "l", "y", "t", "i", "c", "s", " ", "c", "o", "o", "k", "i",
           "e", "s">>,
           <<"M", "a", "r", "k", "e", "t", "i", "n", "g", "/", "A", "d", "v",
           "e", "r", "t", "i", "s", "i", "n", "g", " ", "c", "o", "o", "k",
           "i", "e", "s">>,
           <<"S", "o", "c", "i", "a", "l", " ", "m", "e", "d", "i", "a", " ",
           "c", "o", "o", "k", "i", "e", "s">>,
           <<"O", "t", "h", "e", "r">>>>,
       has_condition |-> TRUE,
       condition |-> <<"u", "s", "e", "s", "_", "c", "o", "o", "k", "i", "e", "s", " ",
          "=", "=", " ", "'", "Y", "e", "s", "'">>],
      [id |-> <<"c", "o", "o", "k", "i", "e", "_", "d", "u", "r", "a", "t",
              "i", "o", "n">>,
       section |-> "cookies", required |-> TRUE,
       has_options |-> FALSE, multi_select |-> FALSE, options |-> <<>>,
       has_condition |-> TRUE,
       condition |-> <<"u", "s", "e", "s", "_", "c", "o", "o", "k", "i", "e", "s", " ",
          "=", "=", " ", "'", "Y", "e", "s", "'">>],
      [id |-> <<"o", "t", "h", "e", "r", "_", "c", "o", "o", "k", "i", "e",
              "_", "t", "y", "p", "e", "s">>,
       section |-> "cookies", required |-> TRUE,
       has_options |-> FALSE, multi_select |-> FALSE, options |-> <<>>,
       has_condition |-> TRUE,
       condition |-> <<"u", "s", "e", "s", "_", "c", "o", "o", "k", "i", "e", "s", " ",
          "=", "=", " ", "'", "Y", "e", "s", "'", " ", "a", "n", "d", " ",
          "'", "O", "t", "h", "e", "r", "'", " ", "i", "n", " ", "c", "o",
          "o", "k", "i", "e", "_", "t", "y", "p", "e", "s">>],
      [id |-> <<"c", "h", "i", "l", "d", "r", "e", "n", "_", "d", "a", "t",
              "a">>,
       section |-> "children_data", required |-> TRUE,
       has_options |-> TRUE, multi_select |-> FALSE,
       options |->
         <<<<"Y", "e", "s">>,
           <<"N", "o">>>>,
       has_condition |-> FALSE, condition |-> <<>>],
      [id |-> <<"c", "h", "i", "l", "d", "r", "e", "n", "_", "d", "a", "t",
              "a", "_", "s", "a", "f", "e", "g", "u", "a", "r", "d", "s">>,
       section |-> "children_data", required |-> TRUE,
       has_options |-> FALSE, multi_select |-> FALSE, options |-> <<>>,
       has_condition |-> TRUE,
       condition |-> <<"c", "h", "i", "l", "d", "r", "e", "n", "_", "d", "a", "t", "a",
          " ", "=", "=", " ", "'", "Y", "e", "s", "'">>],
      [id |-> <<"s", "u", "p", "e", "r", "v", "i", "s", "o", "r", "y", "_",
              "a", "u", "t", "h", "o", "r", "i", "t", "y">>,
       section |-> "complaint_authority", required |-> TRUE,
       has_options |-> TRUE, multi_select |-> FALSE,
       options |->
         <<<<"I", "'", "l", "l", " ", "p", "r", "o", "v", "i", "d", "e", " ",
           "t", "h", "e", " ", "d", "e", "t", "a", "i", "l", "s">>,
           <<"I", " ", "d", "o", "n", "'", "t", " ", "k", "n", "o", "w">>>>,
       has_condition |-> FALSE, condition |-> <<>>],
      [id |-> <<"a", "u", "t", "h", "o", "r", "i", "t", "y", "_", "d", "e",
              "t", "a", "i", "l", "s">>,
       section |-> "complaint_authority", required |-> TRUE,
       has_options |-> FALSE, multi_select |-> FALSE, options |-> <<>>,
       has_condition |-> TRUE,
       condition |-> <<"s", "u", "p", "e", "r", "v", "i", "s", "o", "r", "y", "_", "a",
          "u", "t", "h", "o", "r", "i", "t", "y", " ", "=", "=", " ", "'",
          "I", "\\", "'", "l", "l", " ", "p", "r", "o", "v", "i", "d", "e",
          " ", "t", "h", "e", " ", "d", "e", "t", "a", "i", "l", "s", "'">>],
      [id |-> <<"w", "e", "b", "s", "i", "t", "e", "_", "u", "r", "l">>,
       section |-> "general", required |-> TRUE,
       has_options |-> FALSE, multi_select |-> FALSE, options |-> <<>>,
       has_condition |-> FALSE, condition |-> <<>>],
      [id |-> <<"e", "f", "f", "e", "c", "t", "i", "v", "e", "_", "d", "a",
              "t", "e">>,
       section |-> "general", required |-> FALSE,
       has_options |-> FALSE, multi_select |-> FALSE, options |-> <<>>,
       has_condition |-> FALSE, condition |-> <<>>]
    >>

\* s.find(sub, from): the first position from `from` on at which sub
\* occurs, 0 when there is none
FindFrom(s, sub, from) ==
    LET found == {p \in from..(Len(s) - Len(sub) + 1) :
                     s[p] = sub[1] /\ SubSeq(s, p, p + Len(sub) - 1) = sub}
    IN  IF found = {} THEN 0 ELSE SetMin(found)

\* s.replace(old, new): every occurrence, left to right, not overlapping
RECURSIVE StrReplace(_, _, _)
StrReplace(s, old, new) ==
    LET p == FindFrom(s, old, 1) IN
    IF p = 0 THEN s
    ELSE SubSeq(s, 1, p - 1) \o new
            \o StrReplace(SubSeq(s, p + Len(old), Len(s)), old, new)

\* the characters of s with a backslash before each backslash and each quote
RECURSIVE Escaped(_, _)
Escaped(s, quote) ==
    IF s = <<>> THEN <<>>
    ELSE (IF Head(s) \in {"\\", quote} THEN <<"\\", Head(s)>> ELSE <<Head(s)>>)
            \o Escaped(Tail(s), quote)

\* repr(s) of a str: double quotes when s holds ' and no ", single quotes
\* otherwise
StrRepr(s) ==
    IF (\E i \in 1..Len(s) : s[i] = "'") /\ ~(\E i \in 1..Len(s) : s[i] = "\"")
    THEN <<"\"">> \o Escaped(s, "\"") \o <<"\"">>
    ELSE <<"'">> \o Escaped(s, "'") \o <<"'">>

\* f"{value}" of a list of str: "[" + ", ".join(repr(x)) + "]"
RECURSIVE ListItemsRepr(_, _)
ListItemsRepr(items, n) ==
    IF n = 0 THEN <<>>
    ELSE IF n = 1 THEN StrRepr(items[1])
    ELSE ListItemsRepr(items, n - 1) \o <<",", " ">> \o StrRepr(items[n])

ListRepr(items) == <<"[">> \o ListItemsRepr(items, Len(items)) \o <<"]">>

\* one turn of the loop of _evaluate_condition: a str goes in between two
\* single quotes as it is, a list as its repr
SubstitutedItem(condition, item) ==
    IF item.value.type = "str"
    THEN StrReplace(condition, item.key, <<"'">> \o item.value.value \o <<"'">>)
    ELSE StrReplace(condition, item.key, ListRepr(item.value.value))

\* the loop of _evaluate_condition over the items from..to of company_info,
\* in their order
RECURSIVE Substituted(_, _, _, _)
Substituted(condition, company_info, from, to) ==
    IF from > to THEN condition
    ELSE IF from = to THEN SubstitutedItem(condition, company_info[from])
    ELSE LET half == (from + to) \div 2
             first == Substituted(condition, company_info, from, half)
         IN  IF first = <<>> THEN first
             ELSE Substituted(first, company_info, half + 1, to)

(***************************************************************************)
(* eval: the tokens of the expression, its parse, its value.                *)
(***************************************************************************)
IdentifierChars ==
    DigitChars \cup {"_"} \cup {UpperNames[i] : i \in 1..Len(UpperNames)}
               \cup {LowerNames[i] : i \in 1..Len(LowerNames)}

\* the closing quote of the string literal whose text starts at p, 0 when
\* the literal is not closed; a backslash takes the next character with it
RECURSIVE StringEnd(_, _, _)
StringEnd(s, p, quote) ==
    IF p > Len(s) THEN 0
    ELSE IF s[p] = "\\" THEN StringEnd(s, p + 2, quote)
    ELSE IF s[p] = quote THEN p
    ELSE StringEnd(s, p + 1, quote)

\* the value of the literal text s[p..to]: \' \" and \\ stand for the
\* second character
RECURSIVE StringValue(_, _, _)
StringValue(s, p, to) ==
    IF p > to THEN <<>>
    ELSE IF s[p] = "\\" /\ p < to /\ s[p + 1] \in {"'", "\"", "\\"}
         THEN <<s[p + 1]>> \o StringValue(s, p + 2, to)
    ELSE <<s[p]>> \o StringValue(s, p + 1, to)

\* the last character of the name that starts at p
RECURSIVE NameEnd(_, _)
NameEnd(s, p) ==
    IF p < Len(s) /\ s[p + 1] \in IdentifierChars THEN NameEnd(s, p + 1) ELSE p

\* the token of a name: the keywords of the conditions, a name otherwise
NameToken(name) ==
    IF name = <<"a", "n", "d">> THEN [kind |-> "and", value |-> <<>>]
    ELSE IF name = <<"i", "n">> THEN [kind |-> "in", value |-> <<>>]
    ELSE [kind |-> "name", value |-> name]

\* the tokens of s from p on; what is no string literal, name, ==, bracket
\* or comma is a token of kind "error"
RECURSIVE Tokens(_, _)
Tokens(s, p) ==
    IF p > Len(s) THEN <<>>
    ELSE IF s[p] = " " THEN Tokens(s, p + 1)
    ELSE IF s[p] \in QuoteChars
         THEN LET end == StringEnd(s, p + 1, s[p]) IN
              IF end = 0 THEN <<[kind |-> "error", value |-> <<>>]>>
              ELSE <<[kind |-> "str", value |-> StringValue(s, p + 1, end - 1)]>>
                      \o Tokens(s, end + 1)
    ELSE IF s[p] \in IdentifierChars \ DigitChars
         THEN <<NameToken(SubSeq(s, p, NameEnd(s, p)))>> \o Tokens(s, NameEnd(s, p) + 1)
    ELSE IF s[p] = "=" /\ p < Len(s) /\ s[p + 1] = "="
         THEN <<[kind |-> "==", value |-> <<>>]>> \o Tokens(s, p + 2)
    ELSE IF s[p] \in {"[", "]", ","}
         THEN <<[kind |-> s[p], value |-> <<>>]>> \o Tokens(s, p + 1)
    ELSE <<[kind |-> "error", value |-> <<>>]>>

NoParse == [ok |-> FALSE, type |-> "none", value |-> <<>>, next |-> 0]

\* adjacent string literals from p on make one str
RECURSIVE Literals(_, _, _)
Literals(toks, p, value) ==
    IF p <= Len(toks) /\ toks[p].kind = "str"
    THEN Literals(toks, p + 1, value \o toks[p].value)
    ELSE [ok |-> TRUE, type |-> "str", value |-> value, next |-> p]

\* the items of a list display from p on, up to its closing bracket
RECURSIVE Display(_, _, _)
Display(toks, p, items) ==
    IF p > Len(toks) THEN NoParse
    ELSE IF toks[p].kind = "]"
         THEN [ok |-> TRUE, type |-> "list", value |-> items, next |-> p + 1]
    ELSE IF toks[p].kind # "str" THEN NoParse
    ELSE LET item == Literals(toks, p, <<>>) IN
         IF item.next > Len(toks) THEN NoParse
         ELSE IF toks[item.next].kind = ","
              THEN Display(toks, item.next + 1, Append(items, item.value))
         ELSE IF toks[item.next].kind = "]"
              THEN [ok |-> TRUE, type |-> "list",
                    value |-> Append(items, item.value), next |-> item.next + 1]
         ELSE NoParse

\* an operand: a str, a name or a list of str
Operand(toks, p) ==
    IF p > Len(toks) THEN NoParse
    ELSE IF toks[p].kind = "str" THEN Literals(toks, p, <<>>)
    ELSE IF toks[p].kind = "name"
         THEN [ok |-> TRUE, type |-> "name", value |-> toks[p].value, next |-> p + 1]
    ELSE IF toks[p].kind = "[" THEN Display(toks, p + 1, <<>>)
    ELSE NoParse

\* a comparison: an operand, then == or in and an operand any number of times
RECURSIVE Comparison(_, _)
Comparison(toks, p) ==
    LET left == Operand(toks, p) IN
    IF ~left.ok THEN [ok |-> FALSE, operands |-> <<>>, ops |-> <<>>, next |-> 0]
    ELSE IF left.next <= Len(toks) /\ toks[left.next].kind \in {"==", "in"}
         THEN LET rest == Comparison(toks, left.next + 1) IN
              [ok |-> rest.ok, operands |-> <<left>> \o rest.operands,
               ops |-> <<toks[left.next].kind>> \o rest.ops, next |-> rest.next]
    ELSE [ok |-> TRUE, operands |-> <<left>>, ops |-> <<>>, next |-> left.next]

\* the comparisons joined by and, <<>> when the tokens are no such
\* expression (SyntaxError)
RECURSIVE Conjuncts(_, _)
Conjuncts(toks, p) ==
    LET first == Comparison(toks, p) IN
    IF ~first.ok THEN <<>>
    ELSE IF first.next > Len(toks) THEN <<first>>
    ELSE IF toks[first.next].kind # "and" THEN <<>>
    ELSE LET rest == Conjuncts(toks, first.next + 1) IN
         IF rest = <<>> THEN <<>> ELSE <<first>> \o rest

\* the value of an operand: a name stands for what it is bound to, and for
\* nothing when it is not bound
Bound(operand, names) ==
    IF operand.type # "name" THEN operand
    ELSE IF \E i \in 1..Len(names) : names[i].key = operand.value
         THEN LET i == CHOOSE i \in 1..Len(names) : names[i].key = operand.value
              IN  [operand EXCEPT !.type = names[i].value.type,
                                  !.value = names[i].value.value]
    ELSE [operand EXCEPT !.type = "unbound"]

\* left == right, left in right: a name that is not bound raises NameError,
\* a list in a str TypeError
PairValue(op, left, right) ==
    IF left.type = "unbound" \/ right.type = "unbound" THEN "raise"
    ELSE IF op = "=="
         THEN (IF left.type = right.type /\ left.value = right.value
               THEN "True" ELSE "False")
    ELSE IF right.type = "list"
         THEN (IF left.type = "str"
                  /\ \E i \in 1..Len(right.value) : right.value[i] = left.value
               THEN "True" ELSE "False")
    ELSE IF left.type = "list" THEN "raise"
    ELSE IF left.value = <<>> \/ FindFrom(right.value, left.value, 1) # 0
         THEN "True" ELSE "False"

\* a chain a op b op c: the pairs from the i-th on, the first that is not
\* true decides
RECURSIVE ChainValue(_, _, _)
ChainValue(c, i, names) ==
    LET pair == PairValue(c.ops[i], Bound(c.operands[i], names),
                          Bound(c.operands[i + 1], names))
    IN  IF pair # "True" \/ i = Len(c.ops) THEN pair ELSE ChainValue(c, i + 1, names)

\* the truth of the value of one comparison
ComparisonValue(c, names) ==
    IF c.ops # <<>> THEN ChainValue(c, 1, names)
    ELSE IF Bound(c.operands[1], names).type = "unbound" THEN "raise"
    ELSE IF Bound(c.operands[1], names).value # <<>> THEN "True"
    ELSE "False"

\* and: the first conjunct that is not true decides
RECURSIVE ConjunctsValue(_, _, _)
ConjunctsValue(cs, i, names) ==
    IF ComparisonValue(cs[i], names) # "True" \/ i = Len(cs)
    THEN ComparisonValue(cs[i], names)
    ELSE ConjunctsValue(cs, i + 1, names)

\* eval(expression) where names are bound: "True" or "False", the truth of
\* the value, or "raise"
Eval(expression, names) ==
    LET cs == Conjuncts(Tokens(expression, 1), 1) IN
    IF cs = <<>> THEN "raise" ELSE ConjunctsValue(cs, 1, names)

\* the names of _evaluate_condition that eval(condition) sees: condition,
\* and key and value as the loop left them
LocalNames(condition, company_info) ==
    <<[key |-> <<"c", "o", "n", "d", "i", "t", "i", "o", "n">>,
       value |-> [type |-> "str", value |-> condition]]>>
    \o (IF company_info = <<>> THEN <<>>
        ELSE <<[key |-> <<"k", "e", "y">>,
                value |-> [type |-> "str",
                           value |-> company_info[Len(company_info)].key]],
               [key |-> <<"v", "a", "l", "u", "e">>,
                value |-> company_info[Len(company_info)].value]>>)

\* _evaluate_condition: the recorded keys replaced in the text, eval of the
\* result, False when eval raises
evaluate_condition(condition, company_info) ==
    LET text == Substituted(condition, company_info, 1, Len(company_info)) IN
    Eval(text, LocalNames(text, company_info)) = "True"

\* bool(answer): a str or a list is true when it is not empty
Truthy(answer) == answer.value # <<>>

Str(chars) == [type |-> "str", value |-> chars]
List(items) == [type |-> "list", value |-> items]

\* company_info[key] = answer: in place when the key is there, at the end
\* otherwise
SetItem(items, key, answer) ==
    IF \E i \in 1..Len(items) : items[i].key = key
    THEN [i \in 1..Len(items) |->
            IF items[i].key = key THEN [items[i] EXCEPT !.value = answer] ELSE items[i]]
    ELSE Append(items, [key |-> key, value |-> answer])

\* the index get_next_question ends on, from index on: a question whose
\* condition is not true is stepped over
RECURSIVE NextQuestionIndex(_, _)
NextQuestionIndex(company_info, index) ==
    IF index >= Len(questions) THEN index
    ELSE IF questions[index + 1].has_condition
            /\ ~evaluate_condition(questions[index + 1].condition, company_info)
         THEN NextQuestionIndex(company_info, index + 1)
    ELSE index

\* get_next_question: the parser fields after the call, and the position in
\* questions of the question returned (0 for None)
get_next_question(me) ==
    LET index == NextQuestionIndex(me.company_info, me.current_question_index) IN
    [self |-> [me EXCEPT !.current_question_index = index],
     value |-> IF index >= Len(questions) THEN 0 ELSE index + 1]

\* the answer recorded under the id of the current question and in its
\* section, the index left where it is, get_next_question
RecordOnly(me, answer) ==
    LET current_question == questions[me.current_question_index + 1] IN
    get_next_question(
        [me EXCEPT
           !.company_info = SetItem(@, current_question.id, answer),
           !.policy_sections =
               [@ EXCEPT ![current_question.section] =
                   SetItem(@, current_question.id, answer)]])

\* process_answer: the answer recorded under the id of the current question
\* and in its section, the index moved on, get_next_question
process_answer(me, answer) ==
    LET current_question == questions[me.current_question_index + 1]
        recorded ==
            [me EXCEPT
               !.company_info = SetItem(@, current_question.id, answer),
               !.policy_sections =
                   [@ EXCEPT ![current_question.section] =
                       SetItem(@, current_question.id, answer)],
               !.current_question_index = @ + 1]
    IN  get_next_question(recorded)

\* s.split(","): the pieces between the commas
RECURSIVE SplitComma(_, _)
SplitComma(s, piece) ==
    IF s = <<>> THEN <<piece>>
    ELSE IF Head(s) = "," THEN <<piece>> \o SplitComma(Tail(s), <<>>)
    ELSE SplitComma(Tail(s), Append(piece, Head(s)))

\* s.split("-")
RECURSIVE SplitDash(_, _)
SplitDash(s, piece) ==
    IF s = <<>> THEN <<piece>>
    ELSE IF Head(s) = "-" THEN <<piece>> \o SplitDash(Tail(s), <<>>)
    ELSE SplitDash(Tail(s), Append(piece, Head(s)))

DigitOf(c) == IF c = "0" THEN 0 ELSE CHOOSE d \in 1..9 : DigitNames[d] = c

\* the number written by digits
RECURSIVE DigitsValue(_)
DigitsValue(s) ==
    IF s = <<>> THEN 0
    ELSE 10 * DigitsValue(SubSeq(s, 1, Len(s) - 1)) + DigitOf(s[Len(s)])

AllDigits(s) == \A i \in 1..Len(s) : s[i] \in DigitChars

DaysInMonth(year, month) ==
    IF month = 2
    THEN (IF year % 4 = 0 /\ (year % 100 # 0 \/ year % 400 = 0) THEN 29 ELSE 28)
    ELSE IF month \in {4, 6, 9, 11} THEN 30 ELSE 31

\* datetime.strptime(answer, "%Y-%m-%d") returns: four digits, a month
\* 1..12 and a day 1..31 of one or two digits (the day also as a space and
\* a digit), and the date exists
IsDate(s) ==
    LET parts == SplitDash(s, <<>>) IN
    /\ Len(parts) = 3
    /\ Len(parts[1]) = 4 /\ AllDigits(parts[1])
    /\ Len(parts[2]) \in {1, 2} /\ AllDigits(parts[2])
    /\ DigitsValue(parts[2]) \in 1..12
    /\ LET day == IF Len(parts[3]) = 2 /\ parts[3][1] = " " THEN Tail(parts[3])
                  ELSE parts[3]
       IN  /\ Len(parts[3]) \in {1, 2} /\ day # <<>> /\ AllDigits(day)
           /\ DigitsValue(day) >= 1
           /\ DigitsValue(parts[1]) >= 1
           /\ DigitsValue(day) <= DaysInMonth(DigitsValue(parts[1]), DigitsValue(parts[2]))

EffectiveDate == <<"e", "f", "f", "e", "c", "t", "i", "v", "e", "_", "d", "a", "t", "e">>

\* the items validate_answer tests against the options of a multi_select
\* question: the list, or the stripped pieces of a str
SelectedItems(answer) ==
    IF answer.type = "list" THEN answer.value
    ELSE LET pieces == SplitComma(answer.value, <<>>) IN
         [i \in 1..Len(pieces) |-> Strip(pieces[i])]

\* validate_answer: is_valid
validate_answer(question, answer) ==
    IF question.required /\ ~Truthy(answer) THEN FALSE
    ELSE IF question.has_options /\ question.multi_select
            /\ \E i \in 1..Len(SelectedItems(answer)) :
                  \A j \in 1..Len(question.options) :
                      question.options[j] # SelectedItems(answer)[i]
         THEN FALSE
    ELSE IF question.has_options /\ ~question.multi_select
            /\ (answer.type # "str"
                \/ \A j \in 1..Len(question.options) : question.options[j] # answer.value)
         THEN FALSE
    ELSE IF question.id = EffectiveDate /\ Truthy(answer)
         THEN answer.type = "str" /\ IsDate(answer.value)
    ELSE TRUE

SectionNames == {questions[k].section : k \in 1..Len(questions)}

\* the generator and the loop are built; no question is asked yet
QuestionnaireInit ==
    /\ self = [company_info |-> <<>>,
               policy_sections |-> [s \in SectionNames |-> <<>>],
               current_question_index |-> 0]
    /\ args = [recitals |-> <<>>, articles |-> <<>>,
               actors |-> [t \in ActorTypeSet |-> <<>>], text |-> <<>>]
    /\ db = NoFile
    /\ tx = NoFile
    /\ pc = "idle"
    /\ loc = NoMaps
    /\ run = [stage |-> "new", question |-> 0, accepted |-> 0, rejected |-> FALSE,
              changes |-> 0]
    /\ ret = NoRet
    /\ rd = NoReaders
    /\ files = {PdfPath}

\* what the user types when nothing is to be said: the first option, "x"
\* for a text, nothing for the date
FirstAnswer(question) ==
    IF question.has_options
    THEN (IF question.multi_select THEN List(<<question.options[1]>>)
          ELSE Str(question.options[1]))
    ELSE IF question.id = EffectiveDate THEN Str(<<>>)
    ELSE Str(<<"x">>)

LeapDay == <<"2", "0", "2", "4", "-", "0", "2", "-", "2", "9">>
NoLeapDay == <<"2", "0", "2", "3", "-", "0", "2", "-", "2", "9">>

\* the other answers the loops hand to validate_answer: another option, the
\* last option, the first with the last but one, a date, a day that does
\* not exist, an empty line, an empty selection
OtherAnswers(question) ==
    IF question.has_options
    THEN (IF question.multi_select
          THEN {List(<<question.options[Len(question.options)]>>),
                List(<<question.options[1],
                       question.options[Len(question.options) - 1]>>),
                List(<<>>)}
          ELSE {Str(question.options[j]) : j \in 2..Len(question.options)})
    ELSE IF question.id = EffectiveDate THEN {Str(LeapDay), Str(NoLeapDay)}
    ELSE {Str(<<>>)}

\* self.current_question = self.generator.get_next_question() /
\* next_question = self.generator.get_next_question()
StartQuestionnaire ==
    /\ run.stage = "new"
    /\ self' = get_next_question(self).self
    /\ run' = [run EXCEPT !.stage = "asking",
                          !.question = get_next_question(self).value]
    /\ ret' = [op |-> "get_next_question", arg |-> <<>>, raised |-> FALSE,
               value |-> <<get_next_question(self).value>>]
    /\ UNCHANGED <<args, db, tx, pc, loc, rd, files>>

\* one turn of the loop: the question is put, the answer read and validated;
\* a rejected answer leads back to the loop test, an accepted one is
\* processed and the question it returns becomes the loop's
AnswerQuestion(answer) ==
    /\ run.stage = "asking" /\ run.question # 0
    /\ IF validate_answer(questions[run.question], answer)
       THEN /\ answer # FirstAnswer(questions[run.question]) => run.changes < MaxChanges
            /\ self' = process_answer(self, answer).self
            /\ run' = [run EXCEPT
                         !.question = process_answer(self, answer).value,
                         !.accepted = @ + 1,
                         !.changes = IF answer = FirstAnswer(questions[run.question])
                                     THEN @ ELSE @ + 1]
            /\ ret' = [op |-> "process_answer", arg |-> <<>>, raised |-> FALSE,
                       value |-> <<process_answer(self, answer).value>>]
       ELSE /\ run' = [run EXCEPT !.rejected = TRUE]
            /\ ret' = [op |-> "validate_answer", arg |-> <<>>, raised |-> FALSE,
                       value |-> <<FALSE>>]
            /\ UNCHANGED self
    /\ UNCHANGED <<args, db, tx, pc, loc, rd, files>>

\* the loop test fails on None: self.generate_policy() / self._generate_policy()
GeneratePolicy ==
    /\ run.stage = "asking" /\ run.question = 0
    /\ run' = [run EXCEPT !.stage = "generated"]
    /\ ret' = [op |-> "generate_policy", arg |-> <<>>, raised |-> FALSE, value |-> <<>>]
    /\ UNCHANGED <<self, args, db, tx, pc, loc, rd, files>>

\* the answers the user may type to the question asked
Answers ==
    IF run.stage = "asking" /\ run.question # 0
    THEN {FirstAnswer(questions[run.question])} \cup OtherAnswers(questions[run.question])
    ELSE {}

QuestionnaireNext ==
    \/ StartQuestionnaire
    \/ \E answer \in Answers : AnswerQuestion(answer)
    \/ GeneratePolicy

QuestionnaireSpec == QuestionnaireInit /\ [][QuestionnaireNext]_vars

\* the loop takes an answer that validate_answer accepts: one more answer
\* is accepted and the question is the one process_answer returns
AcceptedAnswer ==
    /\ run.stage = "asking" /\ run.question # 0
    /\ \E next_question \in 0..Len(questions), changes \in {run.changes, run.changes + 1} :
          run' = [run EXCEPT !.question = next_question, !.accepted = @ + 1,
                             !.changes = changes]

\* the loops run on, and the user gives a valid answer to each question
\* asked in the end
QuestionnaireLiveSpec ==
    /\ QuestionnaireInit /\ [][QuestionnaireNext]_vars
    /\ WF_vars(StartQuestionnaire)
    /\ WF_run(AcceptedAnswer)
    /\ WF_vars(GeneratePolicy)

(***************************************************************************)
(* RequirementSpec: a caller of the stage methods extracts articles with   *)
(* paragraphs and subparagraphs, then the requirements of each article,    *)
(* and populates the store.  args.text keeps, for the text of each         *)
(* requirement, the paragraph and subparagraph whose sentence it is, by    *)
(* position in the article.                                                *)
(***************************************************************************)
\* extract_requirements has not run on the last article
NoRequirementYet ==
    args.articles # <<>> => args.articles[LastArticle].requirements = <<>>

\* a sentence of the p-th paragraph of the last article that
\* extract_requirements keeps: requirements.append(req)
ExtractParagraphRequirement(p) ==
    /\ Extracting
    /\ args.articles # <<>>
    /\ p \in 1..LastParagraph
    /\ \A i \in 1..Len(args.text) :
          args.text[i].article = LastArticle => args.text[i].paragraph <= p
    /\ args' = [args EXCEPT
                  !.articles[LastArticle].requirements =
                      Append(@, [paragraph |-> args.articles[LastArticle].paragraphs[p].number,
                                 subparagraph |-> <<>>, text |-> NextText,
                                 is_obligation |-> TRUE, is_right |-> FALSE,
                                 is_time_requirement |-> FALSE]),
                  !.text = Append(@, [text |-> NextText, article |-> LastArticle,
                                      paragraph |-> p, subparagraph |-> 0])]
    /\ run' = [run EXCEPT !.nodes = @ + 1]
    /\ UNCHANGED <<self, db, tx, pc, loc, ret, rd, files>>

\* a sentence of the s-th subparagraph of the p-th paragraph of the last
\* article that extract_requirements keeps
ExtractSubparagraphRequirement(p, s) ==
    /\ Extracting
    /\ args.articles # <<>>
    /\ p \in 1..LastParagraph
    /\ s \in 1..Len(args.articles[LastArticle].paragraphs[p].subparagraphs)
    /\ \A i \in 1..Len(args.text) :
          args.text[i].article = LastArticle =>
              \/ args.text[i].paragraph < p
              \/ args.text[i].paragraph = p /\ args.text[i].subparagraph <= s
    /\ args' = [args EXCEPT
                  !.articles[LastArticle].requirements =
                      Append(@, [paragraph |-> args.articles[LastArticle].paragraphs[p].number,
                                 subparagraph |->
                                     args.articles[LastArticle].paragraphs[p]
                                         .subparagraphs[s].letter,
                                 text |-> NextText,
                                 is_obligation |-> TRUE, is_right |-> FALSE,
                                 is_time_requirement |-> FALSE]),
                  !.text = Append(@, [text |-> NextText, article |-> LastArticle,
                                      paragraph |-> p, subparagraph |-> s])]
    /\ run' = [run EXCEPT !.nodes = @ + 1]
    /\ UNCHANGED <<self, db, tx, pc, loc, ret, rd, files>>

RequirementNext ==
    \/ DirectInitDatabase
    \/ \E n \in ArticleNumbers : ExtractArticle(n)
    \/ \E n \in ParagraphNumbers : NoRequirementYet /\ ExtractParagraph(n)
    \/ \E l \in Letters : NoRequirementYet /\ ExtractSubparagraph(l)
    \/ \E p \in 1..MaxNodes : ExtractParagraphRequirement(p)
    \/ \E p \in 1..MaxNodes, s \in 1..MaxNodes : ExtractSubparagraphRequirement(p, s)
    \/ ExtractDone
    \/ PopulateCall
    \/ PopulateSteps

RequirementSpec == Init /\ [][RequirementNext]_vars

(***************************************************************************)
(* StructureSpec: a caller of the stage methods extracts a document read   *)
(* header by header, CHAPTER, Section and Article lines in the order of    *)
(* the text, and populates the store.  args.text keeps the kinds of the    *)
(* headers read.                                                           *)
(***************************************************************************)
MaxHeaders == 6      \* header lines of one document

ChapterNumerals == <<"I", "II", "III", "IV", "V", "VI", "VII", "VIII">>
SectionNumerals == <<"1", "2", "3", "4", "5", "6", "7", "8">>

ReadingHeaders == run.stage = "extract" /\ run.nodes < MaxHeaders

\* the number of the next Section line: sections are numbered from 1 in each
\* chapter
RECURSIVE SectionsSinceChapter(_)
SectionsSinceChapter(headers) ==
    IF headers = <<>> \/ headers[Len(headers)] = "chapter" THEN 0
    ELSE SectionsSinceChapter(SubSeq(headers, 1, Len(headers) - 1))
         + (IF headers[Len(headers)] = "section" THEN 1 ELSE 0)

\* the interval that contains the header of the article: the last of the
\* intervals that began before it
TagOfLast(positions) ==
    IF positions = <<>> THEN <<>>
    ELSE <<[number |-> positions[Len(positions)].number,
            title |-> positions[Len(positions)].title]>>

\* a CHAPTER line: self.chapters.append({...}) in extract_table_of_contents
HeaderChapter ==
    /\ ReadingHeaders
    /\ self' = [self EXCEPT !.chapters =
                   Append(@, [number |-> ChapterNumerals[Len(@) + 1], title |-> "chapter"])]
    /\ args' = [args EXCEPT !.text = Append(@, "chapter")]
    /\ run' = [run EXCEPT !.nodes = @ + 1]
    /\ UNCHANGED <<db, tx, pc, loc, ret, rd, files>>

\* a Section line: self.sections.append({...}) in extract_table_of_contents
HeaderSection ==
    /\ ReadingHeaders
    /\ self' = [self EXCEPT !.sections =
                   Append(@, [number |-> SectionNumerals[SectionsSinceChapter(args.text) + 1],
                              title |-> "section"])]
    /\ args' = [args EXCEPT !.text = Append(@, "section")]
    /\ run' = [run EXCEPT !.nodes = @ + 1]
    /\ UNCHANGED <<db, tx, pc, loc, ret, rd, files>>

\* an Article line: articles.append({...}) in extract_articles_with_structure
\* with the chapter and the section whose interval contains the header, then
\* the one paragraph "1" of an article without numbered paragraphs
HeaderArticle ==
    /\ ReadingHeaders
    /\ args' = [args EXCEPT
                  !.articles =
                      Append(@, [number |-> <<Len(@) + 1>>, title |-> NextText,
                                 content |-> NextText,
                                 chapter |-> TagOfLast(self.chapters),
                                 section |-> TagOfLast(self.sections),
                                 paragraphs |-> <<[number |-> <<1>>, text |-> NextText,
                                                   subparagraphs |-> <<>>]>>,
                                 requirements |-> <<>>, entities |-> <<>>]),
                  !.text = Append(@, "article")]
    /\ run' = [run EXCEPT !.nodes = @ + 1]
    /\ UNCHANGED <<self, db, tx, pc, loc, ret, rd, files>>

StructureNext ==
    \/ DirectInitDatabase
    \/ HeaderChapter
    \/ HeaderSection
    \/ HeaderArticle
    \/ ExtractDone
    \/ PopulateCall
    \/ PopulateSteps

StructureSpec == Init /\ [][StructureNext]_vars

(***************************************************************************)
(* Claims checked under ParagraphSpec                                      *)
(***************************************************************************)
\* the paragraphs the pieces were written as: a number piece opens a
\* paragraph, a letter piece opens a subparagraph of it, any other piece
\* belongs to the text of what was opened last
RECURSIVE Written(_)
Written(pieces) ==
    IF pieces = <<>> THEN <<>>
    ELSE LET before == Written(SubSeq(pieces, 1, Len(pieces) - 1))
             piece == pieces[Len(pieces)]
             last == before[Len(before)]
         IN IF piece \in NumberPieces
            THEN Append(before, [number |-> <<piece[2]>>, text |-> <<>>,
                                 subparagraphs |-> <<>>])
            ELSE IF piece \in LetterPieces
            THEN [before EXCEPT ![Len(before)].subparagraphs =
                     Append(@, [letter |-> <<piece[3]>>, text |-> <<>>])]
            ELSE IF last.subparagraphs = <<>>
            THEN [before EXCEPT ![Len(before)].text = @ \o piece]
            ELSE [before EXCEPT
                     ![Len(before)].subparagraphs[Len(last.subparagraphs)].text =
                         @ \o piece]

\* numbers, letters and stripped texts of a list of paragraphs
Outline(paragraphs) ==
    [i \in 1..Len(paragraphs) |->
        [number |-> paragraphs[i].number,
         text |-> Strip(paragraphs[i].text),
         subparagraphs |->
            [j \in 1..Len(paragraphs[i].subparagraphs) |->
                [letter |-> paragraphs[i].subparagraphs[j].letter,
                 text |-> Strip(paragraphs[i].subparagraphs[j].text)]]]]

\* every marker among the pieces is followed by a word of words
Worded(pieces, words) ==
    \A i \in 1..Len(pieces) :
        pieces[i] \in NumberPieces \cup LetterPieces
            => i < Len(pieces) /\ pieces[i + 1] \in words

\* C12: a content of numbered paragraphs with lettered markers, each marker
\* followed by its text, decomposes into one subparagraph per marker, in
\* order, and the paragraph text is the part before the first marker
C12_SubparagraphPerMarker ==
    (/\ args.articles # <<>>
     /\ \A i \in 1..Len(args.text) : args.text[i] \notin {RomanPiece, DigitWord}
     /\ \E i \in 1..Len(args.text) : args.text[i] \in LetterPieces
     /\ Worded(args.text, PlainWords))
        => Outline(args.articles[1].paragraphs) = Outline(Written(args.text))

\* C13: a content of numbered paragraphs without subparagraph markers
\* decomposes into one paragraph per number marker, whose text is all that
\* follows the marker up to the next number marker or the end
C13_FullParagraphText ==
    (/\ args.articles # <<>>
     /\ \A i \in 1..Len(args.text) :
            args.text[i] \notin LetterPieces \cup {RomanPiece}
     /\ Worded(args.text, PlainWords \cup {DigitWord}))
        => Outline(args.articles[1].paragraphs) = Outline(Written(args.text))

\* the text of C13 holds for the contents whose words hold no digit
DigitFreeParagraphText ==
    (/\ args.articles # <<>>
     /\ \A i \in 1..Len(args.text) :
            args.text[i] \notin LetterPieces \cup {RomanPiece, DigitWord}
     /\ Worded(args.text, PlainWords))
        => Outline(args.articles[1].paragraphs) = Outline(Written(args.text))

(***************************************************************************)
(* Claims checked under ClassifySpec                                       *)
(***************************************************************************)
\* the texts of the article handed to extract_requirements, of paragraphs and
\* of subparagraphs
ParagraphSentences ==
    {args.articles[1].paragraphs[i].text : i \in 1..Len(args.articles[1].paragraphs)}
SubparagraphSentences ==
    UNION {{args.articles[1].paragraphs[i].subparagraphs[j].text :
               j \in 1..Len(args.articles[1].paragraphs[i].subparagraphs)} :
           i \in 1..Len(args.articles[1].paragraphs)}

\* C14: every requirement that extract_requirements produced is an obligation
\* or a right, and the sentence that matches a time keyword only is in no
\* requirement and in no time requirement
C14_ObligationOrRight ==
    ret.op = "extract_requirements" =>
        /\ \A i \in 1..Len(args.articles[1].requirements) :
              /\ args.articles[1].requirements[i].is_obligation
                    \/ args.articles[1].requirements[i].is_right
              /\ args.articles[1].requirements[i].text # TimeOnlySentence
        /\ \A i \in 1..Len(self.time_requirements) :
              self.time_requirements[i].text # TimeOnlySentence

\* the classifier has run on an article with the time-only sentence in a
\* paragraph and in a subparagraph, and has kept a time-bound obligation
C14_Witness ==
    /\ ret.op = "extract_requirements"
    /\ TimeOnlySentence \in ParagraphSentences
    /\ TimeOnlySentence \in SubparagraphSentences
    /\ self.time_requirements # <<>>

(***************************************************************************)
(* Claims checked under ReferenceSpec                                      *)
(***************************************************************************)
\* a sequence without the repetitions of its elements, in first-seen order
RECURSIVE FirstSeen(_)
FirstSeen(seq) ==
    IF seq = <<>> THEN <<>>
    ELSE LET before == FirstSeen(SubSeq(seq, 1, Len(seq) - 1))
         IN IF \E i \in 1..Len(before) : before[i] = seq[Len(seq)]
            THEN before ELSE Append(before, seq[Len(seq)])

\* the targets of the markers written into the article numbered source
RECURSIVE MarkersOf(_, _)
MarkersOf(marks, source) ==
    IF marks = <<>> THEN <<>>
    ELSE LET mark == marks[Len(marks)]
             before == MarkersOf(SubSeq(marks, 1, Len(marks) - 1), source)
         IN IF mark.source = source /\ mark.article # <<>>
            THEN Append(before, [article |-> mark.article, paragraph |-> mark.paragraph])
            ELSE before

\* the markers of a sequence of markers whose target is not source
RECURSIVE ToOthers(_, _)
ToOthers(markers, source) ==
    IF markers = <<>> THEN <<>>
    ELSE LET before == ToOthers(SubSeq(markers, 1, Len(markers) - 1), source)
         IN IF markers[Len(markers)].article # source
            THEN Append(before, markers[Len(markers)]) ELSE before

\* what self.cross_references lists for the article numbered source
EmittedFor(source) ==
    IF \E i \in 1..Len(self.cross_references) :
          self.cross_references[i].from_article = source
    THEN self.cross_references[CHOOSE i \in 1..Len(self.cross_references) :
                                  self.cross_references[i].from_article = source].references
    ELSE <<>>

PhrasesSearched ==
    SelectSeq(args.text,
              LAMBDA mark : /\ mark.term # <<>>
                            /\ mark.title = DefinitionsTitle \/ mark.article = <<"4">>)

\* the entry that a phrase yields
EntryOf(mark) ==
    [term |-> mark.term, definition |-> mark.definition, article |-> mark.article,
     paragraph |-> mark.paragraph, subparagraph |-> mark.subparagraph]

\* C16: the definitions extracted are the entries of the phrases in articles
\* titled as definitions or numbered 4: each entry has the article and
\* paragraph of a phrase of its term, without a subparagraph when the phrase is
\* in the text of the paragraph and with the letter when it is in a
\* subparagraph (the last phrase of a term is the one kept), and every such
\* phrase has an entry for its term
C16_DefinitionsOfDefinitionArticles ==
    ret.op = "extract_definitions" =>
        /\ \A i \in 1..Len(self.definitions) :
              \E k \in 1..Len(PhrasesSearched) :
                 /\ self.definitions[i] = EntryOf(PhrasesSearched[k])
                 /\ \A m \in (k + 1)..Len(PhrasesSearched) :
                       PhrasesSearched[m].term # PhrasesSearched[k].term
        /\ \A k \in 1..Len(PhrasesSearched) :
              \E i \in 1..Len(self.definitions) :
                 self.definitions[i].term = PhrasesSearched[k].term

\* definitions were extracted from articles of which one is neither titled as
\* definitions nor numbered 4 and holds a phrase; an entry from the text of a
\* paragraph was kept
C16_Witness ==
    /\ ret.op = "extract_definitions"
    /\ \E i \in 1..Len(args.text) :
          /\ args.text[i].term # <<>>
          /\ args.text[i].title = ScopeTitle /\ args.text[i].article # <<"4">>
    /\ \E i \in 1..Len(self.definitions) : self.definitions[i].subparagraph = <<>>

(***************************************************************************)
(* Claims checked under ConstructSpec                                      *)
(***************************************************************************)
\* C17: when no file is at the path that the caller passed, the construction
\* has raised the not-found error, and nothing was extracted, parsed or stored
C17_MissingDocumentFails ==
    (ret.op = "__init__" /\ ret.arg \notin files) =>
        /\ ret.raised
        /\ run.stage = "returned" /\ args.articles = <<>> /\ db = NoFile

\* the statement of C17 for the path that __init__ tests in place of the one
\* passed: it holds
MissingPdfPathFails ==
    (ret.op = "__init__" /\ PdfPath \notin files) =>
        /\ ret.raised
        /\ run.stage = "returned" /\ args.articles = <<>> /\ db = NoFile

(***************************************************************************)
(* Time requirements in the store (Spec, StoreSpec)                        *)
(***************************************************************************)
\* a requirement row and a time requirement row of the same article,
\* paragraph and sentence
SameSentence(requirement, time_req) ==
    /\ time_req.article_id = requirement.article_id
    /\ time_req.paragraph_id = requirement.paragraph_id
    /\ time_req.text = requirement.text

\* the time requirement rows of the store st are those of its time-bound
\* requirement rows
TimeRowsMatch(st) ==
    /\ \A i \in 1..Len(st.requirements) :
          st.requirements[i].is_time_requirement =>
              \E j \in 1..Len(st.time_requirements) :
                  SameSentence(st.requirements[i], st.time_requirements[j])
    /\ \A j \in 1..Len(st.time_requirements) :
          \E i \in 1..Len(st.requirements) :
              /\ st.requirements[i].is_time_requirement
              /\ SameSentence(st.requirements[i], st.time_requirements[j])

\* C18: after parse_and_load has returned True, every time-bound requirement
\* row of the store has a time requirement row of the same article, paragraph
\* and sentence, and every time requirement row has such a requirement row
C18_TimeRowsOfTimeBoundRequirements ==
    run.result = "True" => TimeRowsMatch(db)

\* the same for a caller of the stage methods, who calls init_database before
\* the extraction stages: it holds after each committed populate_database of
\* articles with distinct numbers
DirectTimeRows ==
    (/\ run.mode = "direct" /\ run.last = "committed" /\ pc = "idle"
     /\ \A i, j \in 1..Len(args.articles) :
           args.articles[i].number = args.articles[j].number => i = j)
        => TimeRowsMatch(db)

(***************************************************************************)
(* Claims checked under ArticleSpec                                        *)
(***************************************************************************)
\* the lines of the document that are article headers
HeaderLines == {i \in 1..Len(args.text) : args.text[i].kind = "article"}

\* the k-th header line of the document
RECURSIVE HeaderLine(_, _)
HeaderLine(k, from) ==
    LET first == SetMin({i \in HeaderLines : i >= from})
    IN IF k = 1 THEN first ELSE HeaderLine(k - 1, first + 1)

\* the line after the part of the document that the header line i opens: the
\* next header line, the line after the last one when there is none
PartEnd(i) ==
    LET later == {j \in HeaderLines : j > i}
    IN IF later = {} THEN Len(args.text) + 1 ELSE SetMin(later)

\* the lines from line i to line j - 1, each ended by gap, in the form
\* (raw or normal) that the text was extracted from
RECURSIVE LinesText(_, _, _, _)
LinesText(i, j, gap, normalized) ==
    IF i >= j THEN <<>>
    ELSE (IF normalized THEN args.text[i].normal ELSE args.text[i].raw)
            \o gap \o LinesText(i + 1, j, gap, normalized)

\* one article per header line, in the order of the document, each with the
\* number of its header and, as content, the text from its header line to
\* the next header line
ArticlePerHeader(gap, normalized) ==
    /\ Len(args.articles) = Cardinality(HeaderLines)
    /\ \A k \in 1..Len(args.articles) :
          k <= Cardinality(HeaderLines) =>
              LET i == HeaderLine(k, 1)
              IN /\ args.articles[k].number = args.text[i].number
                 /\ args.articles[k].content
                       = Strip(LinesText(i, PartEnd(i), gap, normalized))

\* C19: extract_articles_with_structure, called on the text that
\* preprocess_text returns for a document, returns one article per article
\* header "Article N - title" of the document, in the order of the document,
\* and the content of each is the text from its header to the next header,
\* to the end of the text for the last one
C19_OneArticlePerHeader ==
    (ret.op = "extract_articles_with_structure" /\ ret.arg = "preprocessed_text")
        => ArticlePerHeader(<<" ">>, TRUE)

\* the same on the text of the document as it is, a header on each line: it
\* holds there
OneArticlePerHeaderLine ==
    (ret.op = "extract_articles_with_structure" /\ ret.arg = "text")
        => ArticlePerHeader(<<"\n">>, FALSE)

\* a document of two headers extracted as it is
TwoHeaderLines ==
    /\ ret.op = "extract_articles_with_structure" /\ ret.arg = "text"
    /\ Cardinality(HeaderLines) = 2 /\ Len(args.articles) = 2

\* on the text that preprocess_text returns no more than one article is found
AtMostOneArticle ==
    (ret.op = "extract_articles_with_structure" /\ ret.arg = "preprocessed_text")
        => /\ Len(args.articles) <= 1
           /\ Len(args.articles) = 1 <=> HeaderLines # {}

\* the offset, counted from 0, of the header of the k-th article in the text
\* that was extracted: the length of the lines before its header line
HeaderOffset(k) ==
    IF ret.arg = "text"
    THEN Len(LinesText(1, HeaderLine(k, 1), <<"\n">>, FALSE))
    ELSE Len(LinesText(1, HeaderLine(k, 1), <<" ">>, TRUE))

\* number and title of the first interval of the list with
\* start <= offset < end, none when no interval is so
FirstHolding(intervals, offset) ==
    LET holding == {j \in 1..Len(intervals) :
                       intervals[j].start <= offset /\ offset < intervals[j].end}
    IN IF holding = {} THEN <<>>
       ELSE <<[number |-> intervals[SetMin(holding)].number,
               title |-> intervals[SetMin(holding)].title]>>

\* C20: after extract_articles_with_structure, the chapter of each article
\* is the first interval of chapter_positions, in the order of the list,
\* with start <= offset of the article's header < end, and none when no
\* interval is so; its section is the same of section_positions, whatever
\* its chapter is; the offset of the header alone decides both
C20_TagsByHeaderOffset ==
    ret.op = "extract_articles_with_structure" =>
        \A k \in 1..Len(args.articles) :
            k <= Cardinality(HeaderLines) =>
                /\ args.articles[k].chapter
                      = FirstHolding(ret.value.chapter_positions, HeaderOffset(k))
                /\ args.articles[k].section
                      = FirstHolding(ret.value.section_positions, HeaderOffset(k))

\* a header before the first chapter marker, with both chapter markers in
\* the content of its article, and a header in the second chapter interval
C20_Witness ==
    /\ ret.op = "extract_articles_with_structure" /\ ret.arg = "text"
    /\ Len(ret.value.chapter_positions) = 2
    /\ ret.value.chapter_positions[1].start > 0
    /\ Len(args.articles) = 2
    /\ args.articles[1].chapter = <<>>
    /\ args.articles[2].chapter # <<>>
    /\ args.articles[2].chapter[1].number = <<"I", "I">>
    /\ args.articles[2].section = <<>>

\* an article with a section and no chapter, followed by one with both
SectionWithoutChapter ==
    /\ ret.op = "extract_articles_with_structure" /\ ret.arg = "text"
    /\ Len(args.articles) = 2
    /\ args.articles[1].chapter = <<>> /\ args.articles[1].section # <<>>
    /\ args.articles[2].chapter # <<>> /\ args.articles[2].section # <<>>

\* the lines of the document that are markers of kind
MarkerLines(kind) == {i \in 1..Len(args.text) : args.text[i].kind = kind}

\* on the text of the document as it is, the list of intervals of kind has
\* one interval per marker line of kind: from the offset of the line to the
\* offset of the next marker line of kind, to the length of the text for the
\* last one
IntervalsOf(kind, intervals) ==
    /\ Len(intervals) = Cardinality(MarkerLines(kind))
    /\ \A i \in MarkerLines(kind) :
          LET j == Cardinality({m \in MarkerLines(kind) : m <= i})
              later == {m \in MarkerLines(kind) : m > i}
              next == IF later = {} THEN Len(args.text) + 1 ELSE SetMin(later)
          IN j <= Len(intervals) =>
                /\ intervals[j].number = args.text[i].number
                /\ intervals[j].start = Len(LinesText(1, i, <<"\n">>, FALSE))
                /\ intervals[j].end = Len(LinesText(1, next, <<"\n">>, FALSE))

IntervalsOfMarkerLines ==
    (ret.op = "extract_articles_with_structure" /\ ret.arg = "text")
        => /\ IntervalsOf("chapter", ret.value.chapter_positions)
           /\ IntervalsOf("section", ret.value.section_positions)

(***************************************************************************)
(* Claims checked under ContentSpec                                        *)
(***************************************************************************)
\* the content written, its header line left out: nothing is left of a
\* content whose header is on the one line of the content
Headless(pieces) ==
    IF pieces # <<>> /\ pieces[1] = HeaderLinePiece THEN Strip(Flatten(Tail(pieces)))
    ELSE IF pieces # <<>> /\ pieces[1] = HeaderPiece THEN <<>>
    ELSE Strip(Flatten(pieces))

\* paragraph_pattern matches nothing in the content of the article, its
\* header removed
NothingNumbered(article) == Paragraphs(Strip(RemoveHeaders(article.content, 1)), 1) = <<>>

NoMarkerNothingNumbered ==
    (/\ args.articles # <<>>
     /\ \A i \in 1..Len(args.text) :
           args.text[i] \notin {DigitWord, NumberPiece(1), NumberPiece(2)})
        => NothingNumbered(args.articles[1])

(***************************************************************************)
(* Claims checked under StagesSpec                                         *)
(***************************************************************************)
\* the articles of the document after one pass of
\* extract_paragraphs_and_subparagraphs
Decomposed2(articles) ==
    [i \in 1..Len(articles) |->
        [articles[i] EXCEPT
            !.paragraphs = extract_paragraphs_and_subparagraphs(articles[i].content)]]

\* what one pass over the articles in list order leaves: the requirements of
\* each article, and the time requirements, definitions and cross-references
\* of the parser
RECURSIVE TimeRequirementsOfPass(_, _)
TimeRequirementsOfPass(articles, n) ==
    IF n = 0 THEN <<>>
    ELSE TimeRequirementsOfPass(articles, n - 1)
            \o ClassifyParagraphs(articles[n], Len(articles[n].paragraphs)).time_requirements

OnePass(articles) ==
    LET decomposed == Decomposed2(articles)
    IN [requirements |->
           [i \in 1..Len(articles) |->
               ClassifyParagraphs(decomposed[i], Len(decomposed[i].paragraphs)).requirements],
        time_requirements |-> TimeRequirementsOfPass(decomposed, Len(decomposed)),
        definitions |-> extract_definitions(decomposed, Len(decomposed)),
        cross_references |-> extract_cross_references(decomposed, Len(decomposed))]

\* the entries of a list, each with the number of times it occurs
Counted(list) ==
    {<<list[i], Cardinality({j \in 1..Len(list) : list[j] = list[i]})>> : i \in 1..Len(list)}

\* every stage was called on every article
AllStagesCalled ==
    /\ ret.op = "stages"
    /\ ret.value.done = StageNames \X (1..Len(args.articles))

\* the parser holds what one pass leaves; the order of the time requirements
\* and of the entries of the maps is not compared
SameAsOnePass ==
    LET pass == OnePass(args.articles)
    IN /\ \A i \in 1..Len(args.articles) :
             args.articles[i].requirements = pass.requirements[i]
       /\ Counted(self.time_requirements) = Counted(pass.time_requirements)
       /\ Counted(self.definitions) = Counted(pass.definitions)
       /\ Counted(self.cross_references) = Counted(pass.cross_references)

\* C22: when the stages have been called on every article of the document,
\* in any order and any number of times, the parser holds the requirements,
\* time requirements, definitions and cross-references that one pass over
\* the articles leaves
C22_StagesInAnyOrder ==
    AllStagesCalled => SameAsOnePass

\* the same when no stage was called twice on an article and the stages that
\* take the list of articles were called on the whole list
C22_OncePerArticle ==
    (AllStagesCalled /\ ret.value.again = {} /\ run.calls = 6) => SameAsOnePass

\* the requirements of an article are those of one pass however the stages
\* were called
RequirementsAsOnePass ==
    (ret.op = "stages") =>
        \A i \in 1..Len(args.articles) :
            <<"requirements", i>> \in ret.value.done =>
                args.articles[i].requirements = OnePass(args.articles).requirements[i]

(***************************************************************************)
(* Parent references during populate_database (StoreSpec)                 *)
(***************************************************************************)
\* a row with that id is in the table
Present(st, table, id) == id \in 1..Len(st[table])

\* a reference is NULL or the id of a row that is in the parent table
Resolved(st, table, id) == id = NULL \/ Present(st, table, id)

\* every parent reference of every row of the store names a row that is in
\* the parent table
ParentsPresent(st) ==
    /\ \A i \in 1..Len(st.sections) : Resolved(st, "chapters", st.sections[i].chapter_id)
    /\ \A i \in 1..Len(st.articles) :
          /\ Resolved(st, "chapters", st.articles[i].chapter_id)
          /\ Resolved(st, "sections", st.articles[i].section_id)
    /\ \A i \in 1..Len(st.paragraphs) : Present(st, "articles", st.paragraphs[i].article_id)
    /\ \A i \in 1..Len(st.subparagraphs) :
          Present(st, "paragraphs", st.subparagraphs[i].paragraph_id)
    /\ \A i \in 1..Len(st.subsubparagraphs) :
          Present(st, "subparagraphs", st.subsubparagraphs[i].subparagraph_id)
    /\ \A t \in {"requirements", "definitions", "time_requirements"} :
          \A i \in 1..Len(st[t]) :
              /\ Resolved(st, "articles", st[t][i].article_id)
              /\ Resolved(st, "paragraphs", st[t][i].paragraph_id)
              /\ Resolved(st, "subparagraphs", st[t][i].subparagraph_id)
    /\ \A i \in 1..Len(st.entities) : Present(st, "articles", st.entities[i].article_id)
    /\ \A i \in 1..Len(st.key_actors) : Present(st, "articles", st.key_actors[i].article_id)
    /\ \A i \in 1..Len(st.cross_references) :
          /\ Present(st, "articles", st.cross_references[i].from_article_id)
          /\ Present(st, "articles", st.cross_references[i].to_article_id)

\* the article of the document that a text was extracted from: no two nodes
\* of a document share their text, and the texts are numbered as extracted,
\* so it is the last article extracted before the text
SourceArticle(text) ==
    LET earlier == {i \in 1..Len(args.articles) : args.articles[i].title[1] < text[1]}
    IN IF earlier = {} THEN 0 ELSE SetMax(earlier)

\* the article of the document that an article row was inserted for
ArticleOfRow(row) ==
    LET same == {i \in 1..Len(args.articles) : args.articles[i].title = row.title}
    IN IF same = {} THEN 0 ELSE SetMin(same)

\* the rows of the articles, paragraphs and requirements name the rows of
\* their own parents
OwnParentsOfNodes(st) ==
    /\ \A i \in 1..Len(st.articles) :
          LET k == ArticleOfRow(st.articles[i])
          IN /\ k # 0
             /\ st.articles[i].chapter_id # NULL =>
                   /\ args.articles[k].chapter # <<>>
                   /\ st.chapters[st.articles[i].chapter_id].number
                         = args.articles[k].chapter[1].number
             /\ st.articles[i].section_id # NULL =>
                   /\ args.articles[k].section # <<>>
                   /\ st.sections[st.articles[i].section_id].number
                         = args.articles[k].section[1].number
    /\ \A i \in 1..Len(st.paragraphs) :
          LET k == ArticleOfRow(st.articles[st.paragraphs[i].article_id])
          IN \E j \in 1..Len(args.articles[k].paragraphs) :
                 /\ args.articles[k].paragraphs[j].number = st.paragraphs[i].number
                 /\ args.articles[k].paragraphs[j].text = st.paragraphs[i].text
    /\ \A i \in 1..Len(st.requirements) :
          st.requirements[i].paragraph_id # NULL =>
              st.paragraphs[st.requirements[i].paragraph_id].article_id
                  = st.requirements[i].article_id

\* the definition rows name the row of the article that the definition was
\* extracted from, and a paragraph row of that article
OwnParentsOfDefinitions(st) ==
    \A i \in 1..Len(st.definitions) :
        LET d == st.definitions[i]
        IN /\ d.article_id # NULL =>
                 ArticleOfRow(st.articles[d.article_id]) = SourceArticle(d.definition)
           /\ d.paragraph_id # NULL =>
                 ArticleOfRow(st.articles[st.paragraphs[d.paragraph_id].article_id])
                     = SourceArticle(d.definition)

\* C23: at every point of populate_database, each parent reference of each
\* row inserted names a row that is in the parent table already, and that
\* row is the row of the parent: the chapter and section an article is
\* tagged with, the article of a paragraph, a paragraph of the article of a
\* requirement, the article and paragraph a definition was extracted from
C23_ParentInsertedFirst ==
    ParentsPresent(tx) /\ OwnParentsOfNodes(tx) /\ OwnParentsOfDefinitions(tx)

\* no two articles of the document carry the same number
DistinctArticleNumbers ==
    \A i, j \in 1..Len(args.articles) :
        args.articles[i].number = args.articles[j].number => i = j

\* the statement holds at every point for a document whose articles carry
\* distinct numbers
ParentsOfDistinctArticles ==
    DistinctArticleNumbers => C23_ParentInsertedFirst

\* whatever the document, the references name rows inserted before, and the
\* rows of the articles, paragraphs and requirements name their own parents
ParentsInsertedBefore ==
    ParentsPresent(tx) /\ OwnParentsOfNodes(tx)

\* a definition row is in the store of a document of two articles
DefinitionRowInserted ==
    /\ pc = "cross_references" /\ Len(args.articles) = 2
    /\ DistinctArticleNumbers
    /\ \E i \in 1..Len(tx.definitions) : tx.definitions[i].article_id = 1

(***************************************************************************)
(* Claims checked under ActorSpec                                          *)
(***************************************************************************)
\* the keywords of the type that the sentence contains
KeywordsIn(chars, actor_type) ==
    {k \in 1..Len(actor_keywords(actor_type)) :
        Contains(LowerText(chars), actor_keywords(actor_type)[k])}

\* how many mentions of the type carry the article and the text
MentionCount(actor_type, article_num, chars) ==
    Cardinality({j \in 1..Len(args.actors[actor_type]) :
                    /\ args.actors[actor_type][j].article = article_num
                    /\ args.actors[actor_type][j].text = chars})

\* how many sentences of the article have the text
SentenceCount(article_num, chars) ==
    Cardinality({i \in 1..Len(args.text) :
                    args.text[i].article = article_num /\ args.text[i].chars = chars})

\* C24: after identify_key_actors, for each actor type and each article,
\* each sentence of the article that contains a keyword of the type has one
\* mention of the type, also when it contains several keywords of the type,
\* and a sentence that contains none has no mention
C24_OneMentionPerSentence ==
    ret.op = "identify_key_actors" =>
        \A actor_type \in ActorTypeSet :
            /\ \A i \in 1..Len(args.text) :
                  MentionCount(actor_type, args.text[i].article, args.text[i].chars)
                      = IF KeywordsIn(args.text[i].chars, actor_type) = {} THEN 0
                        ELSE SentenceCount(args.text[i].article, args.text[i].chars)
            /\ \A j \in 1..Len(args.actors[actor_type]) :
                  \E i \in 1..Len(args.text) :
                      /\ args.text[i].article = args.actors[actor_type][j].article
                      /\ args.text[i].chars = args.actors[actor_type][j].text

\* what holds: a sentence has one mention of the type for each keyword of
\* the type that it contains
MentionPerKeyword ==
    ret.op = "identify_key_actors" =>
        \A actor_type \in ActorTypeSet :
            /\ \A i \in 1..Len(args.text) :
                  MentionCount(actor_type, args.text[i].article, args.text[i].chars)
                      = Cardinality(KeywordsIn(args.text[i].chars, actor_type))
                          * SentenceCount(args.text[i].article, args.text[i].chars)
            /\ \A j \in 1..Len(args.actors[actor_type]) :
                  \E i \in 1..Len(args.text) :
                      /\ args.text[i].article = args.actors[actor_type][j].article
                      /\ args.text[i].chars = args.actors[actor_type][j].text

\* a sentence with "joint controller" has two mentions of the controller
JointControllerTwice ==
    /\ ret.op = "identify_key_actors"
    /\ \E i \in 1..Len(args.text) :
          /\ args.text[i].chars = JointControllerActs
          /\ SentenceCount(args.text[i].article, JointControllerActs) = 1
          /\ MentionCount(<<"controller">>, args.text[i].article, JointControllerActs) = 2

(***************************************************************************)
(* The interval lists (ArticleSpec)                                        *)
(***************************************************************************)
\* len(text) of the text that was extracted
TextLength ==
    IF ret.arg = "text" THEN Len(RawText(args.text))
    ELSE Len(preprocess_text(RawText(args.text)))

\* the intervals of the list that hold the offset
Holding(intervals, offset) ==
    {k \in 1..Len(intervals) : intervals[k].start <= offset /\ offset < intervals[k].end}

\* the intervals are in the order of the text, each ends where the next one
\* starts and the last one at the end of the text; an offset from the start
\* of the first one on is in exactly one, an offset before it in none
Contiguous(intervals, length) ==
    /\ \A k \in 1..(Len(intervals) - 1) :
          /\ intervals[k].start < intervals[k + 1].start
          /\ intervals[k].end = intervals[k + 1].start
    /\ intervals # <<>> => intervals[Len(intervals)].end = length
    /\ \A k \in 1..Len(intervals) : intervals[k].start < intervals[k].end
    /\ \A offset \in 0..(length - 1) :
          Cardinality(Holding(intervals, offset))
              = IF intervals # <<>> /\ offset >= intervals[1].start THEN 1 ELSE 0

\* C25: the chapter intervals that extract_articles_with_structure computes,
\* and its section intervals, are in the order of the text, do not overlap
\* and are contiguous: each ends where the next of its type starts, the last
\* at the length of the text, every offset from the first marker to the end
\* of the text is in exactly one interval and no offset before the first
\* marker is in any
C25_ContiguousIntervals ==
    ret.op = "extract_articles_with_structure" =>
        /\ Contiguous(ret.value.chapter_positions, TextLength)
        /\ Contiguous(ret.value.section_positions, TextLength)

\* a text with a line before the first of two chapter markers, and a
\* section marker between them
C25_Witness ==
    /\ ret.op = "extract_articles_with_structure" /\ ret.arg = "text"
    /\ Len(ret.value.chapter_positions) = 2
    /\ ret.value.chapter_positions[1].start > 0
    /\ Len(ret.value.section_positions) = 1
    /\ ret.value.section_positions[1].start > ret.value.chapter_positions[1].start
    /\ ret.value.section_positions[1].start < ret.value.chapter_positions[2].start

(***************************************************************************)
(* Claims checked under GlossarySpec                                       *)
(***************************************************************************)
\* the entries written while the texts are scanned, in scan order: the texts
\* in the order written (articles in list order, the text of a paragraph
\* before its subparagraphs), the phrases of a text in the order of the
\* patterns
RECURSIVE EntriesWritten(_)
EntriesWritten(marks) ==
    IF marks = <<>> THEN <<>>
    ELSE LET mark == Head(marks)
         IN [k \in 1..Len(mark.phrases) |->
                [term |-> mark.phrases[k].term, definition |-> mark.phrases[k].definition,
                 article |-> mark.article, paragraph |-> mark.paragraph,
                 subparagraph |-> mark.subparagraph]]
            \o EntriesWritten(Tail(marks))

\* the marks of the texts of the first n articles
MarksUpTo(n) == SelectSeq(args.text, LAMBDA mark : mark.index <= n)

\* the map holds one entry per term written, and it is the last one written
\* of the term
LastWritten(definitions, written) ==
    /\ \A i, j \in 1..Len(definitions) :
          definitions[i].term = definitions[j].term => i = j
    /\ \A i \in 1..Len(definitions) :
          \E k \in 1..Len(written) :
             /\ definitions[i] = written[k]
             /\ \A m \in (k + 1)..Len(written) : written[m].term # written[k].term
    /\ \A k \in 1..Len(written) :
          \E i \in 1..Len(definitions) : definitions[i].term = written[k].term

\* C26: the definition map holds at most one entry per term, after each
\* article scanned and at the end, and that entry is the last one written
\* of the term in scan order, with the article, paragraph and subparagraph
\* of that occurrence
C26_LastWriteWins ==
    ret.op = "extract_definitions" =>
        /\ LastWritten(self.definitions, EntriesWritten(args.text))
        /\ \A n \in 0..Len(args.articles) :
              LastWritten(extract_definitions(args.articles, n),
                          EntriesWritten(MarksUpTo(n)))

\* a term was written by two patterns in one text and again in a later text:
\* three entries written, one kept, with the place of the last
C26_Witness ==
    /\ ret.op = "extract_definitions"
    /\ Len(args.text) >= 2
    /\ Len(args.text[1].phrases) = 2
    /\ args.text[1].phrases[1].term = args.text[1].phrases[2].term
    /\ Len(args.text[2].phrases) = 1
    /\ args.text[2].phrases[1].term = args.text[1].phrases[1].term
    /\ args.text[2].subparagraph # <<>>
    /\ \E i \in 1..Len(self.definitions) :
          /\ self.definitions[i].term = args.text[1].phrases[1].term
          /\ self.definitions[i].subparagraph = args.text[2].subparagraph

(***************************************************************************)
(* Claims checked under QuestionnaireSpec                                  *)
(***************************************************************************)
\* the k-th question has an answer recorded
Recorded(k) ==
    \E i \in 1..Len(self.company_info) : self.company_info[i].key = questions[k].id

\* the k-th question is or was asked: the loop holds it, or it was answered
Asked(k) == Recorded(k) \/ (run.stage = "asking" /\ run.question = k)

\* get_next_question has come to the k-th question or gone past it
Reached(k) ==
    /\ run.stage \in {"asking", "generated"}
    /\ k - 1 < self.current_question_index \/ run.question = k

\* the condition of the k-th question is true of the answers recorded: its
\* names stand for the answers
ConditionHolds(k) == Eval(questions[k].condition, self.company_info) = "True"

Conditional == {k \in 1..Len(questions) : questions[k].has_condition}

AuthorityDetails ==
    CHOOSE k \in 1..Len(questions) :
        questions[k].id = <<"a", "u", "t", "h", "o", "r", "i", "t", "y", "_",
                            "d", "e", "t", "a", "i", "l", "s">>

\* C27: after any sequence of accepted answers, a question with a condition
\* that get_next_question has come to is asked if and only if its condition
\* is true of the answers recorded so far
C27_AskedIffConditionHolds ==
    \A k \in Conditional : Reached(k) => (Asked(k) <=> ConditionHolds(k))

\* what holds: every conditional question but authority_details is asked if
\* and only if its condition is true, and authority_details is never asked
AskedIffConditionButAuthority ==
    /\ \A k \in Conditional \ {AuthorityDetails} :
          Reached(k) => (Asked(k) <=> ConditionHolds(k))
    /\ ~Asked(AuthorityDetails)

\* authority_details is stepped over although the answer to
\* supervisory_authority is the one its condition names
AuthorityDetailsNotAsked ==
    /\ Reached(AuthorityDetails) /\ ConditionHolds(AuthorityDetails)
    /\ ~Asked(AuthorityDetails)

\* both outcomes of a condition occur: a question asked, one stepped over
BothOutcomes ==
    /\ \E k \in Conditional \ {AuthorityDetails} : Reached(k) /\ Asked(k)
    /\ \E k \in Conditional \ {AuthorityDetails} : Reached(k) /\ ~Asked(k)
    /\ run.stage = "generated"

(***************************************************************************)
(* Claims checked under QuestionnaireLiveSpec                              *)
(***************************************************************************)
\* a step of the loop in which validate_answer rejects the answer
RejectedStep == run.stage = "asking" /\ ret'.op = "validate_answer"

\* a step of the loop in which the answer is accepted and processed
AcceptedStep == run.stage = "asking" /\ ret'.op = "process_answer"

\* what a step of the questionnaire does to the index, the answers and the
\* question of the loop
QuestionnaireStep ==
    /\ self'.current_question_index >= self.current_question_index
    /\ RejectedStep =>
          /\ self' = self
          /\ run' = [run EXCEPT !.rejected = TRUE]
    /\ AcceptedStep =>
          /\ self'.current_question_index >= self.current_question_index + 1
          /\ run'.accepted = run.accepted + 1

\* C30: current_question_index never decreases, a rejected answer leaves the
\* index and the recorded answers as they are and the same question is asked
\* again, an accepted answer moves the index on by at least one, and when
\* the user gives a valid answer to each question in the end,
\* get_next_question returns None and the policy is generated, after at most
\* len(questions) accepted answers; each question asked has a valid answer
C30_QuestionnaireTerminates ==
    /\ [][QuestionnaireStep]_vars
    /\ [](run.accepted <= Len(questions) /\ run.accepted <= self.current_question_index)
    /\ [](run.stage = "generated" =>
              run.question = 0 /\ self.current_question_index >= Len(questions))
    /\ [](run.stage = "asking" /\ run.question # 0 =>
              validate_answer(questions[run.question],
                              FirstAnswer(questions[run.question])))
    /\ <>(run.stage = "generated")

\* the policy is generated after an answer was rejected and others accepted
C30_Witness ==
    /\ run.stage = "generated"
    /\ run.rejected
    /\ run.accepted > 0 /\ run.accepted < Len(questions)

(***************************************************************************)
(* Claims checked under RequirementSpec                                    *)
(***************************************************************************)
\* the paragraph and subparagraph the sentence of a requirement text is of
OriginOf(text) == args.text[CHOOSE i \in 1..Len(args.text) : args.text[i].text = text]

\* the row is the row of the p-th paragraph of the a-th article handed over
IsParagraphRow(st, row, a, p) == row.text = args.articles[a].paragraphs[p].text

\* the row is the row of the s-th subparagraph of that paragraph
IsSubparagraphRow(st, row, a, p, s) ==
    row.text = args.articles[a].paragraphs[p].subparagraphs[s].text

\* every requirement row of st has the row of its own paragraph of its own
\* article row as paragraph_id and, when its sentence is of a subparagraph,
\* the row of that subparagraph under that paragraph row as subparagraph_id
PointsAtOrigin(st) ==
    \A i \in 1..Len(st.requirements) :
        LET row == st.requirements[i]
            origin == OriginOf(row.text)
        IN  /\ row.paragraph_id # NULL
            /\ IsParagraphRow(st, st.paragraphs[row.paragraph_id],
                              origin.article, origin.paragraph)
            /\ st.paragraphs[row.paragraph_id].article_id = row.article_id
            /\ IF origin.subparagraph = 0 THEN row.subparagraph_id = NULL
               ELSE /\ row.subparagraph_id # NULL
                    /\ IsSubparagraphRow(st, st.subparagraphs[row.subparagraph_id],
                                         origin.article, origin.paragraph,
                                         origin.subparagraph)
                    /\ st.subparagraphs[row.subparagraph_id].paragraph_id
                           = row.paragraph_id

\* C28: every requirement row written by populate_database has as
\* paragraph_id the row of the very paragraph, of the same article, its
\* sentence was extracted from, and as subparagraph_id the row of the
\* subparagraph when it has one, also when paragraphs of the article share a
\* number or articles share a number
C28_RequirementPointsAtOrigin == PointsAtOrigin(tx)

\* the paragraphs of each article have numbers of their own, and the
\* subparagraphs of each paragraph letters of their own
DistinctParagraphNumbers ==
    \A a \in 1..Len(args.articles) :
        /\ \A p, q \in 1..Len(args.articles[a].paragraphs) :
              args.articles[a].paragraphs[p].number = args.articles[a].paragraphs[q].number
                  => p = q
        /\ \A p \in 1..Len(args.articles[a].paragraphs) :
              \A s, t \in 1..Len(args.articles[a].paragraphs[p].subparagraphs) :
                  args.articles[a].paragraphs[p].subparagraphs[s].letter
                      = args.articles[a].paragraphs[p].subparagraphs[t].letter => s = t

\* what holds: the rows point at the paragraphs and subparagraphs of their
\* sentences when no article has two paragraphs of one number nor a
\* paragraph two subparagraphs of one letter, whatever the article numbers
OriginWhenNumbersDistinct == DistinctParagraphNumbers => PointsAtOrigin(tx)

\* two articles of one number, each with a requirement row
TwoArticlesOfOneNumber ==
    /\ DistinctParagraphNumbers
    /\ Len(args.articles) = 2 /\ args.articles[1].number = args.articles[2].number
    /\ \E i, j \in 1..Len(tx.requirements) :
          tx.requirements[i].article_id # tx.requirements[j].article_id

(***************************************************************************)
(* Claims checked under StructureSpec                                      *)
(***************************************************************************)
\* the number of the section the article of the row is tagged with
TaggedSection(row) == args.articles[ArticleOfRow(row)].section[1].number

\* the row has both a chapter and a section
HasChapterAndSection(row) == row.chapter_id # NULL /\ row.section_id # NULL

\* the section row of the article row carries the number of the section the
\* article is tagged with
SectionRowHasNumber(st, row) ==
    st.sections[row.section_id].number = TaggedSection(row)

\* the section row of the article row is filed under the chapter of the
\* article row
SectionRowHasChapter(st, row) ==
    st.sections[row.section_id].chapter_id = row.chapter_id

\* C29: after populate_database, the section row referenced by each article
\* row that has both a chapter and a section carries the number of the
\* section the article is tagged with and has the chapter_id of the article
\* row, also when a section number occurs under several chapters
C29_ArticleConsistentWithSection ==
    \A i \in 1..Len(tx.articles) :
        HasChapterAndSection(tx.articles[i]) =>
            /\ SectionRowHasNumber(tx, tx.articles[i])
            /\ SectionRowHasChapter(tx, tx.articles[i])

\* what holds: the section row carries the number of the tagged section, and
\* it is filed under the chapter of the first article handed over that is
\* tagged with that section number and with a chapter
SectionOfFirstTaggedArticle ==
    \A i \in 1..Len(tx.articles) :
        HasChapterAndSection(tx.articles[i]) =>
            /\ SectionRowHasNumber(tx, tx.articles[i])
            /\ \E j \in 1..Len(tx.articles) :
                  /\ HasChapterAndSection(tx.articles[j])
                  /\ TaggedSection(tx.articles[j]) = TaggedSection(tx.articles[i])
                  /\ tx.sections[tx.articles[i].section_id].chapter_id
                         = tx.articles[j].chapter_id

\* an article row with a chapter and a section under a second chapter whose
\* section row is filed under its own chapter
SectionUnderSecondChapter ==
    \E i \in 1..Len(tx.articles) :
        /\ HasChapterAndSection(tx.articles[i])
        /\ args.articles[ArticleOfRow(tx.articles[i])].chapter[1].number = "II"
        /\ SectionRowHasChapter(tx, tx.articles[i])
====
